---- MODULE Spec2Model ----
(***************************************************************************)
(* Voice-call coordination core of openclaw: the streaming TTS relay      *)
(* (StreamingTtsPipeline) and the CallManager with its event processor    *)
(* and outbound controller.                                                *)
(***************************************************************************)
EXTENDS Integers, Sequences, FiniteSets, TLC

(***************************************************************************)
(* Bounds of the model.                                                    *)
(***************************************************************************)
MaxApiCalls == 3
MaxMsgs == 2
MaxInputs == 4
MaxFileInputs == 3
MaxInits == 3
MaxContexts == 4
MaxChars == 2
MaxTurns == 1
MaxResponses == 2
MaxRuns == 4
MaxPayloads == 2
MaxPayloadChars == 1

(* Chunk size for sending audio to Twilio (640 bytes = 80ms at 8kHz ulaw). *)
CHUNK_SIZE == 640

(* The well-formed transport messages tried: the size in bytes of the      *)
(* decoded audio payload (0: no audio field, or an empty one) and isFinal. *)
Messages ==
    { <<CHUNK_SIZE - 1, FALSE>>, <<CHUNK_SIZE + 1, FALSE>>,
      <<0, TRUE>>, <<CHUNK_SIZE + 1, TRUE>> }

(***************************************************************************)
(* State of one StreamingTtsPipeline and of its two collaborators.         *)
(***************************************************************************)
VARIABLES
    ws,             \* this.ws is non-null
    readyState,     \* readyState of the WebSocket made by connect()
    aborted,        \* this.aborted
    flushed,        \* this.flushed
    wsReady,        \* this.wsReady
    pendingChunks,  \* this.pendingChunks
    eosOnOpen,      \* flush() registered its extra "open" listener
    completion,     \* state of completionPromise
    completedBy,    \* the handler whose completionResolve call settled it
    audioLeftover,  \* this.audioLeftover
    wire,           \* messages passed to ws.send, in order
    media,          \* calls made on mediaStreamHandler, in order
    received,       \* audio bytes decoded by the message handler, in order
    fedEarly,       \* texts accepted by feedTokens before wsReady
    fedLate,        \* texts accepted by feedTokens once wsReady
    calls,          \* number of feedTokens, flush and abort calls
    lastCall,       \* the latest of them
    msgCount,       \* number of "message" events
    finalSeen,      \* the message handler has processed an isFinal message
    lateAudio,      \* it has processed an audio payload after an isFinal one
    errorSeen,      \* the "error" handler has run
    closeCalls      \* number of ws.close() calls

relayVars == <<ws, readyState, aborted, flushed, wsReady, pendingChunks,
               eosOnOpen, completion, completedBy, audioLeftover, wire, media,
               received, fedEarly, fedLate, calls, lastCall, msgCount,
               finalSeen, lateAudio, errorSeen, closeCalls>>

(***************************************************************************)
(* State of the CallManager: its runtime maps (manager.ts, context.ts),    *)
(* the Store, the provider and the operations in flight.                   *)
(***************************************************************************)
VARIABLES
    activeCalls,             \* CallManager.activeCalls: callId -> CallRecord
    providerCallIdMap,       \* CallManager.providerCallIdMap
    processedEventIds,       \* CallManager.processedEventIds
    rejectedProviderCallIds, \* CallManager.rejectedProviderCallIds
    activeTurnCalls,         \* CallManager.activeTurnCalls
    transcriptWaiters,       \* CallManager.transcriptWaiters: callId -> waiter
    maxDurationTimers,       \* CallManager.maxDurationTimers (armed timers)
    store,                   \* the Store's records of the calls that ended
    ops,                     \* controller operations invoked, in order
    timerHangups,            \* calls whose max-duration hangup is in flight
    hookCalls,               \* lifecycle hook invocations, per call
    hangups,                 \* provider hangup requests, per call
    rejectHangups,           \* provider reject-hangups sent
    deliveries,              \* number of processEvent calls
    returned                 \* what the last operation to return returned

managerVars == <<activeCalls, providerCallIdMap, processedEventIds,
                 rejectedProviderCallIds, activeTurnCalls, transcriptWaiters,
                 maxDurationTimers, store, ops, timerHangups, hookCalls,
                 hangups, rejectHangups, deliveries, returned>>

(***************************************************************************)
(* The live transcript files the CallManager's hooks write (manager.ts).   *)
(***************************************************************************)
VARIABLES
    liveTranscriptPaths,     \* CallManager.liveTranscriptPaths: callId -> path
    files,                   \* the files under memory/calls: path -> content
    io                       \* the fs promise chains in flight, in start order

fileVars == <<liveTranscriptPaths, files, io>>

(***************************************************************************)
(* The references CallManager's fields hold and the contexts getContext()  *)
(* has handed to operations still in flight (manager.ts 51-92, 143-169).   *)
(***************************************************************************)
VARIABLES
    refs,                    \* field of the manager -> the object it holds
    provider,                \* this.provider: "null" or the provider's name
    contexts,                \* the contexts of the operations in flight
    initResult,              \* how the latest initialize() ended
    inits                    \* initialize() calls so far

contextVars == <<refs, provider, contexts, initResult, inits>>

(***************************************************************************)
(* The onCallAnswered hook: the call it is given and what it starts.       *)
(***************************************************************************)
VARIABLES
    answeredCall,            \* the CallRecord handed to onCallAnswered
    answeredRuns,            \* runs of the hook so far
    spokenInitial            \* providerCallIds given to speakInitialMessage

answeredVars == <<answeredCall, answeredRuns, spokenInitial>>

(***************************************************************************)
(* generateVoiceResponse: the session store, the UUIDs drawn and the runs  *)
(* of the embedded agent.                                                  *)
(***************************************************************************)
VARIABLES
    sessionStore,            \* the session store file: sessionKey -> sessionId
    storeReads,              \* loadSessionStore calls so far
    storeWrites,             \* saveSessionStore calls so far
    uuids,                   \* crypto.randomUUID() calls so far
    voiceRuns,               \* per invocation: its params, what the agent got
    invocations              \* invocations in flight at an await, or returned

voiceVars ==
    <<sessionStore, storeReads, storeWrites, uuids, voiceRuns, invocations>>

(***************************************************************************)
(* scripts/watchdog.sh, run by launchd every 60 seconds.                   *)
(***************************************************************************)
VARIABLES
    failCountFile,           \* $FAIL_COUNT_FILE: 0 when absent, else its number
    backupFile,              \* whether $BACKUP exists
    configFile,              \* what $CONFIG holds: "current" or "backup"
    watchdogRuns,            \* runs of the script so far
    lastRun,                 \* what the latest run did
    failedRuns               \* failed runs since the last successful check

watchdogVars ==
    <<failCountFile, backupFile, configFile, watchdogRuns, lastRun, failedRuns>>

hostVars == <<contextVars, answeredVars, voiceVars, watchdogVars>>

(* What the steps of one part of the program leave alone. *)
notRelay == <<managerVars, fileVars, hostVars>>
notManager == <<relayVars, fileVars, hostVars>>
notHooks == <<relayVars, hostVars>>
callVars == <<relayVars, managerVars, fileVars>>
notContext == <<callVars, answeredVars, voiceVars, watchdogVars>>
notAnswered == <<callVars, contextVars, voiceVars, watchdogVars>>
notVoice == <<callVars, contextVars, answeredVars, watchdogVars>>
notWatchdog == <<callVars, contextVars, answeredVars, voiceVars>>

vars == <<relayVars, managerVars, fileVars, hostVars>>

(***************************************************************************)
(* Messages on the transport, by the shape JSON.stringify gives them.      *)
(***************************************************************************)
BosMsg == [kind |-> "bos", text |-> " "]
TextMsg(text) == [kind |-> "text", text |-> text]
EosMsg == [kind |-> "eos", text |-> ""]

SendAudio(frame) == [op |-> "sendAudio", frame |-> frame]
SendMark == [op |-> "sendMark", frame |-> <<>>]
ClearAudio == [op |-> "clearAudio", frame |-> <<>>]

(***************************************************************************)
(* Pure helpers of the pipeline.                                           *)
(***************************************************************************)

(* sendText: a message per chunk, only on a non-null socket that is OPEN. *)
sendText(w, rs, out, text) ==
    IF ~w \/ rs # "OPEN" THEN out ELSE Append(out, TextMsg(text))

(* Variant of sendEos that tests the socket's readyState only. *)
sendEosNoNullCheck(w, rs, out) ==
    IF rs # "OPEN" THEN out ELSE Append(out, EosMsg)

(* sendEos: the end-of-stream message, under the same guard. *)
sendEos(w, rs, out) ==
    IF ~w \/ rs # "OPEN" THEN out ELSE Append(out, EosMsg)

(* Variant of flushPending that takes the chunks from the end. *)
RECURSIVE flushPendingReversed(_, _, _, _)
flushPendingReversed(chunks, w, rs, out) ==
    IF chunks = <<>> THEN out
    ELSE flushPendingReversed(SubSeq(chunks, 1, Len(chunks) - 1), w, rs,
                              sendText(w, rs, out, chunks[Len(chunks)]))

(* The open handler's loop over pendingChunks. *)
RECURSIVE flushPending(_, _, _, _)
flushPending(chunks, w, rs, out) ==
    IF chunks = <<>> THEN out
    ELSE flushPending(Tail(chunks), w, rs, sendText(w, rs, out, Head(chunks)))

(* Variant of the loop that stops at a buffer of exactly one frame. *)
RECURSIVE chunkLoopStrict(_, _)
chunkLoopStrict(buf, out) ==
    IF Len(buf) > CHUNK_SIZE
    THEN chunkLoopStrict(SubSeq(buf, CHUNK_SIZE + 1, Len(buf)),
                         Append(out, SendAudio(SubSeq(buf, 1, CHUNK_SIZE))))
    ELSE [media |-> out, leftover |-> buf]

(* Variant of chunkLoop that sends the rest at once instead of keeping it. *)
RECURSIVE chunkLoopEager(_, _)
chunkLoopEager(buf, out) ==
    IF Len(buf) >= CHUNK_SIZE
    THEN chunkLoopEager(SubSeq(buf, CHUNK_SIZE + 1, Len(buf)),
                        Append(out, SendAudio(SubSeq(buf, 1, CHUNK_SIZE))))
    ELSE IF Len(buf) > 0
    THEN [media |-> Append(out, SendAudio(buf)), leftover |-> <<>>]
    ELSE [media |-> out, leftover |-> buf]

(* The while loop of sendAudioChunks: whole frames out, the rest kept. *)
RECURSIVE chunkLoop(_, _)
chunkLoop(buf, out) ==
    IF Len(buf) >= CHUNK_SIZE
    THEN chunkLoop(SubSeq(buf, CHUNK_SIZE + 1, Len(buf)),
                   Append(out, SendAudio(SubSeq(buf, 1, CHUNK_SIZE))))
    ELSE [media |-> out, leftover |-> buf]

sendAudioChunks(leftover, audio, out) == chunkLoop(leftover \o audio, out)

(* Variant of sendRemainingAudio that drops the rest without sending it. *)
sendRemainingAudioDiscard(leftover, out) ==
    [media |-> out, leftover |-> <<>>]

(* sendRemainingAudio: the undersized rest goes out as a frame of its own. *)
sendRemainingAudio(leftover, out) ==
    IF Len(leftover) > 0
    THEN [media |-> Append(out, SendAudio(leftover)), leftover |-> <<>>]
    ELSE [media |-> out, leftover |-> leftover]

(* completionResolve?.(): a promise settles on the first call only. *)
Resolve(by) ==
    /\ completion' = "resolved"
    /\ completedBy' = IF completion = "pending" THEN by ELSE completedBy

NoResolve == UNCHANGED <<completion, completedBy>>

(* The next n bytes of the synthesized stream: each byte is its position. *)
Payload(n) == [i \in 1..n |-> Len(received) + i]

(***************************************************************************)
(* The CallManager's domains.                                              *)
(***************************************************************************)
CallIds == {1, 2}
ProviderCallIds == {1, 2, 3}

(* The inbound policy: calls of these provider call ids are rejected. *)
DeniedPids == {3}
Kinds == {"ringing", "answered", "transcript", "ended", "error", "unknown"}

NoHooks == [answered |-> 0, startTranscript |-> 0, entry |-> 0, ended |-> 0]

(***************************************************************************)
(* Initial state: the constructor has run connect().                       *)
(***************************************************************************)
RelayInit ==
    /\ ws = TRUE
    /\ readyState = "CONNECTING"
    /\ aborted = FALSE
    /\ flushed = FALSE
    /\ wsReady = FALSE
    /\ pendingChunks = <<>>
    /\ eosOnOpen = FALSE
    /\ completion = "pending"
    /\ completedBy = "none"
    /\ audioLeftover = <<>>
    /\ wire = <<>>
    /\ media = <<>>
    /\ received = <<>>
    /\ fedEarly = <<>>
    /\ fedLate = <<>>
    /\ calls = 0
    /\ lastCall = "none"
    /\ msgCount = 0
    /\ finalSeen = FALSE
    /\ lateAudio = FALSE
    /\ errorSeen = FALSE
    /\ closeCalls = 0

ManagerInit ==
    /\ activeCalls = <<>>
    /\ providerCallIdMap = <<>>
    /\ processedEventIds = {}
    /\ rejectedProviderCallIds = {}
    /\ activeTurnCalls = {}
    /\ transcriptWaiters = <<>>
    /\ maxDurationTimers = {}
    /\ store = <<>>
    /\ ops = <<>>
    /\ hookCalls = [c \in CallIds |-> NoHooks]
    /\ hangups = [c \in CallIds |-> 0]
    /\ rejectHangups = 0
    /\ timerHangups = {}
    /\ deliveries = 0
    /\ returned = [op |-> "none", callId |-> 0, result |-> "none"]

FileInit ==
    /\ liveTranscriptPaths = <<>>
    /\ files = <<>>
    /\ io = <<>>

(* The maps initialize() replaces, and the ones made once with the object. *)
PersistedFields ==
    {"activeCalls", "providerCallIdMap", "processedEventIds",
     "rejectedProviderCallIds"}
TransientFields == {"activeTurnCalls", "transcriptWaiters", "maxDurationTimers"}
Fields == PersistedFields \cup TransientFields

(* The field initialisers: every map is object 0, no provider yet. *)
ContextInit ==
    /\ refs = [f \in Fields |-> 0]
    /\ provider = "null"
    /\ contexts = <<>>
    /\ initResult = "none"
    /\ inits = 0

(* The providers a manager is initialized with. *)
ProviderNames == {"twilio", "telnyx"}

(* Values of a field that may be missing or hold something else. *)
Undefined == [type |-> "undefined", value |-> <<>>]
NotAString == [type |-> "number", value |-> <<>>]
Str(chars) == [type |-> "string", value |-> chars]

(* Strings of up to MaxChars characters, blank or not. *)
Chars == {" ", "a"}
Strings == UNION {[1..n -> Chars] : n \in 0..MaxChars}

(* A record with no metadata and no providerCallId. *)
PlainCall == [metadata |-> Undefined, initialMessage |-> Undefined,
              providerCallId |-> Undefined]

(* The records onCallAnswered can be given. *)
AnsweredCalls ==
    {PlainCall} \cup
    [metadata : {[type |-> "object", value |-> <<>>]},
     initialMessage : {Undefined, NotAString} \cup {Str(t) : t \in Strings},
     providerCallId : {Undefined, Str(<<>>), Str(<<"a">>)}]

AnsweredInit ==
    /\ answeredCall = PlainCall
    /\ answeredRuns = 0
    /\ spokenInitial = <<>>

VoiceInit ==
    /\ sessionStore = <<>>
    /\ storeReads = 0
    /\ storeWrites = 0
    /\ uuids = 0
    /\ voiceRuns = <<>>
    /\ invocations = <<>>

(* A run that found the gateway healthy: nothing logged, nothing done. *)
QuietRun == [failed |-> FALSE, fails |-> 0, logged |-> FALSE,
             rolledBack |-> FALSE, loaded |-> FALSE, kickstarted |-> FALSE]

WatchdogInit ==
    /\ failCountFile = 0
    /\ backupFile = FALSE
    /\ configFile = "current"
    /\ watchdogRuns = 0
    /\ lastRun = QuietRun
    /\ failedRuns = 0

HostInit == ContextInit /\ AnsweredInit /\ VoiceInit /\ WatchdogInit


Init == RelayInit /\ ManagerInit /\ FileInit /\ HostInit

(***************************************************************************)
(* Transport events and their handlers.                                    *)
(***************************************************************************)

(* Variant of "open" that sends the buffered chunks before the             *)
(* begin-of-stream message.                                                *)
OnOpenBosLast ==
    /\ readyState = "CONNECTING"
    /\ LET rs1 == IF aborted /\ ws THEN "CLOSING" ELSE "OPEN"
           out1 == IF aborted THEN wire
                   ELSE Append(flushPending(pendingChunks, ws, "OPEN", wire),
                               BosMsg)
       IN /\ readyState' = rs1
          /\ closeCalls' = IF aborted /\ ws THEN closeCalls + 1 ELSE closeCalls
          /\ wsReady' = IF aborted THEN wsReady ELSE TRUE
          /\ pendingChunks' = IF aborted THEN pendingChunks ELSE <<>>
          /\ wire' = IF eosOnOpen THEN sendEos(ws, rs1, out1) ELSE out1
    /\ UNCHANGED <<ws, aborted, flushed, eosOnOpen, completion, completedBy,
                   audioLeftover, media, received, fedEarly, fedLate, calls,
                   lastCall, msgCount, finalSeen, lateAudio, errorSeen>>

(* Variant of "open" in which the listener flush() added runs first. *)
OnOpenEosFirst ==
    /\ readyState = "CONNECTING"
    /\ LET rs1 == IF aborted /\ ws THEN "CLOSING" ELSE "OPEN"
           out0 == IF eosOnOpen THEN sendEos(ws, "OPEN", Append(wire, BosMsg))
                   ELSE Append(wire, BosMsg)
       IN /\ readyState' = rs1
          /\ closeCalls' = IF aborted /\ ws THEN closeCalls + 1 ELSE closeCalls
          /\ wsReady' = IF aborted THEN wsReady ELSE TRUE
          /\ pendingChunks' = IF aborted THEN pendingChunks ELSE <<>>
          /\ wire' = IF aborted THEN wire
                     ELSE flushPending(pendingChunks, ws, "OPEN", out0)
    /\ UNCHANGED <<ws, aborted, flushed, eosOnOpen, completion, completedBy,
                   audioLeftover, media, received, fedEarly, fedLate, calls,
                   lastCall, msgCount, finalSeen, lateAudio, errorSeen>>

(* "open": the handler of connect(), then the listener flush() added. *)
OnOpen ==
    /\ readyState = "CONNECTING"
    /\ LET rs1 == IF aborted /\ ws THEN "CLOSING" ELSE "OPEN"
           out1 == IF aborted THEN wire
                   ELSE flushPending(pendingChunks, ws, "OPEN",
                                     Append(wire, BosMsg))
       IN /\ readyState' = rs1
          /\ closeCalls' = IF aborted /\ ws THEN closeCalls + 1 ELSE closeCalls
          /\ wsReady' = IF aborted THEN wsReady ELSE TRUE
          /\ pendingChunks' = IF aborted THEN pendingChunks ELSE <<>>
          /\ wire' = IF eosOnOpen THEN sendEos(ws, rs1, out1) ELSE out1
    /\ UNCHANGED <<ws, aborted, flushed, eosOnOpen, completion, completedBy,
                   audioLeftover, media, received, fedEarly, fedLate, calls,
                   lastCall, msgCount, finalSeen, lateAudio, errorSeen>>

(* "message" with a JSON body {audio?, isFinal?}. *)
OnMessage(n, isFinal) ==
    /\ readyState \in {"OPEN", "CLOSING"}
    /\ msgCount < MaxMsgs
    /\ msgCount' = msgCount + 1
    /\ IF aborted
       THEN UNCHANGED <<audioLeftover, media, received, finalSeen, lateAudio,
                        completion, completedBy>>
       ELSE LET audio == Payload(n)
                a == IF n > 0
                     THEN sendAudioChunks(audioLeftover, audio, media)
                     ELSE [media |-> media, leftover |-> audioLeftover]
                f == sendRemainingAudio(a.leftover, a.media)
            IN /\ received' = received \o audio
               /\ lateAudio' = (lateAudio \/ (finalSeen /\ n > 0))
               /\ IF isFinal
                  THEN /\ audioLeftover' = f.leftover
                       /\ media' = Append(f.media, SendMark)
                       /\ finalSeen' = TRUE
                       /\ Resolve("final")
                  ELSE /\ audioLeftover' = a.leftover
                       /\ media' = a.media
                       /\ UNCHANGED finalSeen
                       /\ NoResolve
    /\ UNCHANGED <<ws, readyState, aborted, flushed, wsReady, pendingChunks,
                   eosOnOpen, wire, fedEarly, fedLate, calls, lastCall,
                   errorSeen, closeCalls>>

(* "message" whose body JSON.parse rejects: caught and logged. *)
OnMalformedMessage ==
    /\ readyState \in {"OPEN", "CLOSING"}
    /\ msgCount < MaxMsgs
    /\ msgCount' = msgCount + 1
    /\ UNCHANGED <<ws, readyState, aborted, flushed, wsReady, pendingChunks,
                   eosOnOpen, completion, completedBy, audioLeftover, wire,
                   media, received, fedEarly, fedLate, calls, lastCall,
                   finalSeen, lateAudio, errorSeen, closeCalls>>

(* Variant of the "error" handler that leaves the completion pending. *)
OnErrorNoResolve ==
    /\ readyState \in {"CONNECTING", "OPEN", "CLOSING"}
    /\ ~errorSeen
    /\ errorSeen' = TRUE
    /\ readyState' = "CLOSING"
    /\ UNCHANGED <<ws, aborted, flushed, wsReady, pendingChunks, eosOnOpen,
                   completion, completedBy, audioLeftover, wire, media,
                   received, fedEarly, fedLate, calls, lastCall, msgCount,
                   finalSeen, lateAudio, closeCalls>>

(* Variant of the "error" handler that calls connect() again. *)
OnErrorReconnects ==
    /\ readyState \in {"CONNECTING", "OPEN", "CLOSING"}
    /\ ~errorSeen
    /\ errorSeen' = TRUE
    /\ readyState' = "CONNECTING"
    /\ Resolve("error")
    /\ UNCHANGED <<ws, aborted, flushed, wsReady, pendingChunks, eosOnOpen,
                   audioLeftover, wire, media, received, fedEarly, fedLate,
                   calls, lastCall, msgCount, finalSeen, lateAudio,
                   closeCalls>>

(* "error": the socket fails; it then closes. *)
OnError ==
    /\ readyState \in {"CONNECTING", "OPEN", "CLOSING"}
    /\ ~errorSeen
    /\ errorSeen' = TRUE
    /\ readyState' = "CLOSING"
    /\ Resolve("error")
    /\ UNCHANGED <<ws, aborted, flushed, wsReady, pendingChunks, eosOnOpen,
                   audioLeftover, wire, media, received, fedEarly, fedLate,
                   calls, lastCall, msgCount, finalSeen, lateAudio,
                   closeCalls>>

(* Variant of the "close" handler that resolves and keeps the rest. *)
OnCloseNoFlush ==
    /\ readyState \in {"OPEN", "CLOSING"}
    /\ readyState' = "CLOSED"
    /\ Resolve("close")
    /\ UNCHANGED <<ws, aborted, flushed, wsReady, pendingChunks, eosOnOpen,
                   audioLeftover, media, wire, received, fedEarly, fedLate,
                   calls, lastCall, msgCount, finalSeen, lateAudio, errorSeen,
                   closeCalls>>

(* "close". *)
OnClose ==
    /\ readyState \in {"OPEN", "CLOSING"}
    /\ readyState' = "CLOSED"
    /\ LET f == sendRemainingAudio(audioLeftover, media)
       IN /\ audioLeftover' = f.leftover
          /\ media' = f.media
    /\ Resolve("close")
    /\ UNCHANGED <<ws, aborted, flushed, wsReady, pendingChunks, eosOnOpen,
                   wire, received, fedEarly, fedLate, calls, lastCall,
                   msgCount, finalSeen, lateAudio, errorSeen, closeCalls>>

(***************************************************************************)
(* Operations of the pipeline.                                             *)
(***************************************************************************)

(* A call of the pipeline's public interface. *)
Call(name) ==
    /\ calls < MaxApiCalls
    /\ calls' = calls + 1
    /\ lastCall' = name

(* feedTokens(tokens): the text fed is the number of the call. *)
feedTokens ==
    /\ Call("feedTokens")
    /\ LET tokens == calls + 1
       IN IF aborted
          THEN UNCHANGED <<pendingChunks, wire, fedEarly, fedLate>>
          ELSE IF ~wsReady
          THEN /\ pendingChunks' = Append(pendingChunks, tokens)
               /\ fedEarly' = Append(fedEarly, tokens)
               /\ UNCHANGED <<wire, fedLate>>
          ELSE /\ wire' = sendText(ws, readyState, wire, tokens)
               /\ fedLate' = Append(fedLate, tokens)
               /\ UNCHANGED <<pendingChunks, fedEarly>>
    /\ UNCHANGED <<ws, readyState, aborted, flushed, wsReady, eosOnOpen,
                   completion, completedBy, audioLeftover, media, received,
                   msgCount, finalSeen, lateAudio, errorSeen, closeCalls>>

(* Variant of flush() that does not test this.flushed. *)
flushNotIdempotent ==
    /\ Call("flush")
    /\ IF aborted
       THEN UNCHANGED <<flushed, eosOnOpen, wire>>
       ELSE /\ flushed' = TRUE
            /\ IF ~wsReady
               THEN /\ eosOnOpen' = (eosOnOpen \/ ws)
                    /\ UNCHANGED wire
               ELSE /\ wire' = sendEos(ws, readyState, wire)
                    /\ UNCHANGED eosOnOpen
    /\ UNCHANGED <<ws, readyState, aborted, wsReady, pendingChunks,
                   completion, completedBy, audioLeftover, media, received,
                   fedEarly, fedLate, msgCount, finalSeen, lateAudio,
                   errorSeen, closeCalls>>

(* flush(). *)
flush ==
    /\ Call("flush")
    /\ IF aborted \/ flushed
       THEN UNCHANGED <<flushed, eosOnOpen, wire>>
       ELSE /\ flushed' = TRUE
            /\ IF ~wsReady
               THEN /\ eosOnOpen' = (eosOnOpen \/ ws)
                    /\ UNCHANGED wire
               ELSE /\ wire' = sendEos(ws, readyState, wire)
                    /\ UNCHANGED eosOnOpen
    /\ UNCHANGED <<ws, readyState, aborted, wsReady, pendingChunks,
                   completion, completedBy, audioLeftover, media, received,
                   fedEarly, fedLate, msgCount, finalSeen, lateAudio,
                   errorSeen, closeCalls>>

(* Variant of abort() that does not test this.aborted. *)
abortNotIdempotent ==
    /\ Call("abort")
    /\ aborted' = TRUE
    /\ pendingChunks' = <<>>
    /\ IF ws /\ readyState = "OPEN"
       THEN /\ readyState' = "CLOSING"
            /\ closeCalls' = closeCalls + 1
       ELSE UNCHANGED <<readyState, closeCalls>>
    /\ ws' = FALSE
    /\ media' = Append(media, ClearAudio)
    /\ Resolve("abort")
    /\ UNCHANGED <<flushed, wsReady, eosOnOpen, audioLeftover, wire, received,
                   fedEarly, fedLate, msgCount, finalSeen, lateAudio,
                   errorSeen>>

(* Variant of abort() that leaves the completion of a socket it closes to  *)
(* the "close" handler.                                                    *)
abortCompletesOnClose ==
    /\ Call("abort")
    /\ IF aborted
       THEN UNCHANGED <<ws, readyState, aborted, pendingChunks, media,
                        completion, completedBy, closeCalls>>
       ELSE /\ aborted' = TRUE
            /\ pendingChunks' = <<>>
            /\ IF ws /\ readyState = "OPEN"
               THEN /\ readyState' = "CLOSING"
                    /\ closeCalls' = closeCalls + 1
                    /\ NoResolve
               ELSE /\ UNCHANGED <<readyState, closeCalls>>
                    /\ Resolve("abort")
            /\ ws' = FALSE
            /\ media' = Append(media, ClearAudio)
    /\ UNCHANGED <<flushed, wsReady, eosOnOpen, audioLeftover, wire, received,
                   fedEarly, fedLate, msgCount, finalSeen, lateAudio,
                   errorSeen>>

(* abort(). *)
abort ==
    /\ Call("abort")
    /\ IF aborted
       THEN UNCHANGED <<ws, readyState, aborted, pendingChunks, media,
                        completion, completedBy, closeCalls>>
       ELSE /\ aborted' = TRUE
            /\ pendingChunks' = <<>>
            /\ IF ws /\ readyState = "OPEN"
               THEN /\ readyState' = "CLOSING"
                    /\ closeCalls' = closeCalls + 1
               ELSE UNCHANGED <<readyState, closeCalls>>
            /\ ws' = FALSE
            /\ media' = Append(media, ClearAudio)
            /\ Resolve("abort")
    /\ UNCHANGED <<flushed, wsReady, eosOnOpen, audioLeftover, wire, received,
                   fedEarly, fedLate, msgCount, finalSeen, lateAudio,
                   errorSeen>>

RelayNext ==
    \/ OnOpen /\ UNCHANGED notRelay
    \/ \E m \in Messages : OnMessage(m[1], m[2]) /\ UNCHANGED notRelay
    \/ OnMalformedMessage /\ UNCHANGED notRelay
    \/ OnError /\ UNCHANGED notRelay
    \/ OnClose /\ UNCHANGED notRelay
    \/ feedTokens /\ UNCHANGED notRelay
    \/ flush /\ UNCHANGED notRelay
    \/ abort /\ UNCHANGED notRelay

RelaySpec == Init /\ [][RelayNext]_vars

(***************************************************************************)
(* CallManager: records, lookup and the transition into ended.             *)
(***************************************************************************)
Remove(f, k) == [x \in (DOMAIN f) \ {k} |-> f[x]]

KnownCalls == (DOMAIN activeCalls) \cup (DOMAIN store)

(* The manager takes another input: an event or a controller call. *)
CanInvoke == deliveries + Len(ops) < MaxInputs

(* CallIds are generated at call creation and never reused. *)
NextCallId == Cardinality(KnownCalls) + 1

NewRecord(c, pid, direction, status) ==
    [callId |-> c, providerCallId |-> pid, direction |-> direction,
     status |-> status, endReason |-> "none", endedAt |-> 0]

UnusedPids == (ProviderCallIds \ DeniedPids) \ DOMAIN providerCallIdMap

(* The provider call ids an event can carry: known, denied, or the next. *)
EventPids ==
    (DOMAIN providerCallIdMap) \cup DeniedPids
        \cup {p \in UnusedPids : \A q \in UnusedPids : p <= q}

Hook(c, name) == [hookCalls EXCEPT ![c][name] = @ + 1]

(* A controller operation that has returned. *)
Done == [op |-> "none", callId |-> 0, pc |-> "done", waiter |-> "none"]

(* What a controller operation returned to its caller. *)
Return(op, c, result) == [op |-> op, callId |-> c, result |-> result]

(* A controller operation suspended at pc. *)
Suspended(op, c, pc) ==
    [op |-> op, callId |-> c, pc |-> pc, waiter |-> "none"]

(* The relays streaming audio for call c: one per turn being spoken. *)
relays(c) ==
    Cardinality({i \in 1..Len(ops) :
                    ops[i].callId = c /\ ops[i].pc = "streaming"})

(* A rejection that never reaches the waiter. *)
RejectWaiterForgets(ops0, c, why) == ops0

(* Rejecting the call's waiter, if it has one. *)
RejectWaiter(ops0, c, why) ==
    IF c \in DOMAIN transcriptWaiters
    THEN [ops0 EXCEPT ![transcriptWaiters[c]].waiter = why]
    ELSE ops0

(* A transition into ended that leaves the call's turn in progress. *)
EndTransitionKeepsTurn(c, reason, calls0, ops0) ==
    /\ activeCalls' = Remove(calls0, c)
    /\ store' = store @@ (c :> [calls0[c] EXCEPT !.status = "ended",
                                                 !.endReason = reason,
                                                 !.endedAt = 1])
    /\ hookCalls' = Hook(c, "ended")
    /\ maxDurationTimers' = maxDurationTimers \ {c}
    /\ transcriptWaiters' = Remove(transcriptWaiters, c)
    /\ ops' = RejectWaiter(ops0, c, "ended")
    /\ UNCHANGED activeTurnCalls

(* The transition of call c of calls0 into ended. *)
EndTransition(c, reason, calls0, ops0) ==
    /\ activeCalls' = Remove(calls0, c)
    /\ store' = store @@ (c :> [calls0[c] EXCEPT !.status = "ended",
                                                 !.endReason = reason,
                                                 !.endedAt = 1])
    /\ hookCalls' = Hook(c, "ended")
    /\ maxDurationTimers' = maxDurationTimers \ {c}
    /\ transcriptWaiters' = Remove(transcriptWaiters, c)
    /\ ops' = RejectWaiter(ops0, c, "ended")
    /\ activeTurnCalls' = activeTurnCalls \ {c}

(***************************************************************************)
(* Event Processor: processEvent(context, event).                          *)
(***************************************************************************)

(* A dedup guard that lets every event through. *)
isDuplicateNever(eventId) == FALSE

(* The dedup guard. *)
isDuplicate(eventId) == eventId \in processedEventIds

(* The state transition an event of a kind implies for call c of calls0. *)
ApplyEvent(c, ev, calls0) ==
    LET status == calls0[c].status
    IN CASE ev.kind = "ringing" /\ status = "initiated" ->
              /\ activeCalls' = [calls0 EXCEPT ![c].status = "ringing"]
              /\ UNCHANGED <<store, hookCalls, maxDurationTimers,
                             transcriptWaiters, ops, activeTurnCalls>>
         [] ev.kind = "answered" /\ status \in {"initiated", "ringing"} ->
              /\ activeCalls' = [calls0 EXCEPT ![c].status = "answered"]
              /\ hookCalls' = [hookCalls EXCEPT
                                  ![c].answered = @ + 1,
                                  ![c].startTranscript = @ + 1]
              /\ maxDurationTimers' = maxDurationTimers \cup {c}
              /\ UNCHANGED <<store, transcriptWaiters, ops,
                             activeTurnCalls>>
         [] ev.kind = "transcript" /\ status = "answered" ->
              /\ activeCalls' = calls0
              /\ hookCalls' = Hook(c, "entry")
              /\ transcriptWaiters' = Remove(transcriptWaiters, c)
              /\ ops' = IF c \in DOMAIN transcriptWaiters
                        THEN [ops EXCEPT
                                 ![transcriptWaiters[c]].waiter = "resolved"]
                        ELSE ops
              /\ UNCHANGED <<store, maxDurationTimers, activeTurnCalls>>
         [] ev.kind = "ended" -> EndTransition(c, "caller-hangup", calls0, ops)
         [] ev.kind = "error" -> EndTransition(c, "provider-error", calls0, ops)
         [] OTHER ->
              /\ activeCalls' = calls0
              /\ UNCHANGED <<store, hookCalls, maxDurationTimers,
                             transcriptWaiters, ops, activeTurnCalls>>

(* processEvent for an eventId not seen before. *)
ProcessNewEvent(ev) ==
    /\ processedEventIds' = processedEventIds \cup {ev.eventId}
    /\ IF ev.providerCallId \in DOMAIN providerCallIdMap
       THEN LET c == providerCallIdMap[ev.providerCallId]
            IN /\ UNCHANGED <<providerCallIdMap, rejectedProviderCallIds,
                              rejectHangups>>
               /\ IF c \in DOMAIN activeCalls
                  THEN ApplyEvent(c, ev, activeCalls)
                  ELSE UNCHANGED <<activeCalls, store, hookCalls,
                                   maxDurationTimers, transcriptWaiters, ops,
                                   activeTurnCalls>>
       ELSE IF ev.providerCallId \notin DeniedPids
       THEN LET c == NextCallId
                r == NewRecord(c, ev.providerCallId, "inbound", "ringing")
            IN /\ c \in CallIds
               /\ providerCallIdMap' =
                     providerCallIdMap @@ (ev.providerCallId :> c)
               /\ UNCHANGED <<rejectedProviderCallIds, rejectHangups>>
               /\ ApplyEvent(c, ev, activeCalls @@ (c :> r))
       ELSE /\ rejectedProviderCallIds' =
                  rejectedProviderCallIds \cup {ev.providerCallId}
            /\ rejectHangups' =
                  IF ev.providerCallId \in rejectedProviderCallIds
                  THEN rejectHangups ELSE rejectHangups + 1
            /\ UNCHANGED <<activeCalls, providerCallIdMap, store, hookCalls,
                           maxDurationTimers, transcriptWaiters, ops,
                           activeTurnCalls>>

(* A processEvent that waits until no call has a turn in progress. *)
processEventAfterTurns(ev) ==
    /\ activeTurnCalls = {}
    /\ CanInvoke
    /\ deliveries' = deliveries + 1
    /\ IF isDuplicate(ev.eventId)
       THEN UNCHANGED <<activeCalls, providerCallIdMap, processedEventIds,
                        rejectedProviderCallIds, activeTurnCalls,
                        transcriptWaiters, maxDurationTimers, store, ops,
                        hookCalls, rejectHangups>>
       ELSE ProcessNewEvent(ev)
    /\ UNCHANGED <<hangups, timerHangups, returned>>

(* CallManager.processEvent(event). *)
processEvent(ev) ==
    /\ CanInvoke
    /\ deliveries' = deliveries + 1
    /\ IF isDuplicate(ev.eventId)
       THEN UNCHANGED <<activeCalls, providerCallIdMap, processedEventIds,
                        rejectedProviderCallIds, activeTurnCalls,
                        transcriptWaiters, maxDurationTimers, store, ops,
                        hookCalls, rejectHangups>>
       ELSE ProcessNewEvent(ev)
    /\ UNCHANGED <<hangups, timerHangups, returned>>

(* The events the provider can deliver: a new eventId or an old one. *)
Events ==
    [eventId : 1..(Cardinality(processedEventIds) + 1),
     providerCallId : EventPids, kind : Kinds]

(***************************************************************************)
(* Outbound Controller: initiateCall, speak, continueCall, endCall, and    *)
(* the max-duration timer.  An operation that awaits the provider, the     *)
(* relay or a transcript is suspended in ops until its continuation runs.  *)
(***************************************************************************)

(* The test endCall makes first: the call has ended already. *)
alreadyEnded(c) == c \in DOMAIN store

(* The test without the one-turn-at-a-time part. *)
canSpeakIgnoresTurn(c) ==
    /\ c \in DOMAIN activeCalls
    /\ activeCalls[c].status = "answered"

(* The test speak makes first: answered, and no turn in progress. *)
canSpeak(c) ==
    /\ c \in DOMAIN activeCalls
    /\ activeCalls[c].status = "answered"
    /\ c \notin activeTurnCalls

(* initiateCall(to): a record in initiated state, then the provider. *)
initiateCall ==
    /\ CanInvoke
    /\ NextCallId \in CallIds
    /\ activeCalls' = activeCalls
          @@ (NextCallId :> NewRecord(NextCallId, 0, "outbound", "initiated"))
    /\ ops' = Append(ops, Suspended("initiateCall", NextCallId, "placing"))
    /\ UNCHANGED <<providerCallIdMap, processedEventIds,
                   rejectedProviderCallIds, activeTurnCalls, transcriptWaiters,
                   maxDurationTimers, store, hookCalls, hangups, rejectHangups,
                   timerHangups, deliveries, returned>>

(* The provider's answer to place(): a providerCallId, or an error. *)
initiateCallReturn(i, ok) ==
    /\ ops[i].op = "initiateCall" /\ ops[i].pc = "placing"
    /\ LET c == ops[i].callId
       IN IF ok
          THEN \E pid \in UnusedPids :
                 /\ \A q \in UnusedPids : pid <= q
                 /\ activeCalls' = [activeCalls EXCEPT ![c].providerCallId = pid]
                 /\ providerCallIdMap' = providerCallIdMap @@ (pid :> c)
                 /\ ops' = [ops EXCEPT ![i] = Done]
                 /\ returned' = Return("initiateCall", c, "ok")
                 /\ UNCHANGED <<store, hookCalls, maxDurationTimers,
                                transcriptWaiters, activeTurnCalls>>
          ELSE /\ EndTransition(c, "provider-error", activeCalls,
                                [ops EXCEPT ![i] = Done])
               /\ returned' = Return("initiateCall", c, "error")
               /\ UNCHANGED providerCallIdMap
    /\ UNCHANGED <<processedEventIds, rejectedProviderCallIds, hangups,
                   rejectHangups, timerHangups, deliveries>>

(* speak / continueCall: the turn begins and the relay is driven, or the   *)
(* operation fails at once.                                                *)
beginTurn(op, c) ==
    /\ CanInvoke
    /\ c \in KnownCalls
    /\ IF canSpeak(c)
       THEN /\ activeTurnCalls' = activeTurnCalls \cup {c}
            /\ hookCalls' = Hook(c, "entry")
            /\ ops' = Append(ops, Suspended(op, c, "streaming"))
            /\ UNCHANGED returned
       ELSE /\ ops' = Append(ops, Done)
            /\ returned' = Return(op, c, "error")
            /\ UNCHANGED <<activeTurnCalls, hookCalls>>
    /\ UNCHANGED <<activeCalls, providerCallIdMap, processedEventIds,
                   rejectedProviderCallIds, transcriptWaiters,
                   maxDurationTimers, store, hangups, rejectHangups,
                   timerHangups, deliveries>>

speak(c) == beginTurn("speak", c)

continueCall(c) == beginTurn("continueCall", c)

(* The relay of a speak completes (ok) or fails: speak returns. *)
speakReturn(i, ok) ==
    /\ ops[i].op = "speak" /\ ops[i].pc = "streaming"
    /\ activeTurnCalls' = activeTurnCalls \ {ops[i].callId}
    /\ ops' = [ops EXCEPT ![i] = Done]
    /\ returned' = Return("speak", ops[i].callId,
                          IF ok THEN "ok" ELSE "error")
    /\ UNCHANGED <<activeCalls, providerCallIdMap, processedEventIds,
                   rejectedProviderCallIds, transcriptWaiters,
                   maxDurationTimers, store, hookCalls, hangups, rejectHangups,
                   timerHangups, deliveries>>

(* The relay of a continueCall completes: the waiter is registered. *)
continueCallListen(i, ok) ==
    /\ ops[i].op = "continueCall" /\ ops[i].pc = "streaming"
    /\ LET c == ops[i].callId
       IN IF ok /\ c \in DOMAIN activeCalls
             THEN /\ transcriptWaiters' =
                        Remove(transcriptWaiters, c) @@ (c :> i)
                  /\ ops' = [RejectWaiter(ops, c, "replaced") EXCEPT
                                ![i].pc = "waiting", ![i].waiter = "pending"]
                  /\ UNCHANGED <<activeTurnCalls, returned>>
             ELSE /\ ops' = [ops EXCEPT ![i] = Done]
                  /\ returned' = Return("continueCall", c, "error")
                  /\ activeTurnCalls' = activeTurnCalls \ {c}
                  /\ UNCHANGED transcriptWaiters
    /\ UNCHANGED <<activeCalls, providerCallIdMap, processedEventIds,
                   rejectedProviderCallIds, maxDurationTimers, store,
                   hookCalls, hangups, rejectHangups, timerHangups,
                   deliveries>>

(* A deadline timer that rejects and leaves the entry in the map. *)
waiterTimeoutKeepsEntry(i) ==
    /\ ops[i].pc = "waiting" /\ ops[i].waiter = "pending"
    /\ ops' = [ops EXCEPT ![i].waiter = "timeout"]
    /\ UNCHANGED <<activeCalls, providerCallIdMap, processedEventIds,
                   rejectedProviderCallIds, activeTurnCalls, transcriptWaiters,
                   maxDurationTimers, store, hookCalls, hangups, rejectHangups,
                   timerHangups, deliveries, returned>>

(* The waiter's deadline timer fires: entry removed, then the rejection. *)
waiterTimeout(i) ==
    /\ ops[i].pc = "waiting" /\ ops[i].waiter = "pending"
    /\ transcriptWaiters' = Remove(transcriptWaiters, ops[i].callId)
    /\ ops' = [ops EXCEPT ![i].waiter = "timeout"]
    /\ UNCHANGED <<activeCalls, providerCallIdMap, processedEventIds,
                   rejectedProviderCallIds, activeTurnCalls,
                   maxDurationTimers, store, hookCalls, hangups, rejectHangups,
                   timerHangups, deliveries, returned>>

(* The waiter settled: continueCall returns the text, or the error. *)
continueCallReturn(i) ==
    /\ ops[i].pc = "waiting" /\ ops[i].waiter # "pending"
    /\ ops' = [ops EXCEPT ![i] = Done]
    /\ returned' = Return("continueCall", ops[i].callId,
                          IF ops[i].waiter = "resolved" THEN "ok"
                          ELSE ops[i].waiter)
    /\ activeTurnCalls' = activeTurnCalls \ {ops[i].callId}
    /\ UNCHANGED <<activeCalls, providerCallIdMap, processedEventIds,
                   rejectedProviderCallIds, transcriptWaiters,
                   maxDurationTimers, store, hookCalls, hangups, rejectHangups,
                   timerHangups, deliveries>>

(* An endCall that stamps endedAt before the provider has answered. *)
endCallStampsEarly(c) ==
    /\ CanInvoke
    /\ c \in KnownCalls
    /\ IF alreadyEnded(c)
       THEN /\ ops' = Append(ops, Done)
            /\ returned' = Return("endCall", c, "ok")
            /\ UNCHANGED <<hangups, activeCalls>>
       ELSE IF activeCalls[c].providerCallId = 0
       THEN /\ ops' = Append(ops, Done)
            /\ returned' = Return("endCall", c, "error")
            /\ UNCHANGED <<hangups, activeCalls>>
       ELSE /\ ops' = Append(ops, Suspended("endCall", c, "hangup"))
            /\ hangups' = [hangups EXCEPT ![c] = @ + 1]
            /\ activeCalls' = [activeCalls EXCEPT ![c].endedAt = 1]
            /\ UNCHANGED returned
    /\ UNCHANGED <<providerCallIdMap, processedEventIds,
                   rejectedProviderCallIds, activeTurnCalls, transcriptWaiters,
                   maxDurationTimers, store, hookCalls, rejectHangups,
                   timerHangups, deliveries>>

(* An endCall that asks the provider whether or not the call has ended. *)
endCallNoEndedCheck(c) ==
    /\ CanInvoke
    /\ c \in KnownCalls
    /\ LET rec == IF c \in DOMAIN store THEN store[c] ELSE activeCalls[c]
       IN IF rec.providerCallId = 0
          THEN /\ ops' = Append(ops, Done)
               /\ returned' = Return("endCall", c, "error")
               /\ UNCHANGED hangups
          ELSE /\ ops' = Append(ops, Suspended("endCall", c, "hangup"))
               /\ hangups' = [hangups EXCEPT ![c] = @ + 1]
               /\ UNCHANGED returned
    /\ UNCHANGED <<activeCalls, providerCallIdMap, processedEventIds,
                   rejectedProviderCallIds, activeTurnCalls, transcriptWaiters,
                   maxDurationTimers, store, hookCalls, rejectHangups,
                   timerHangups, deliveries>>

(* endCall(callId): nothing to do, or the provider is asked to hang up. *)
endCall(c) ==
    /\ CanInvoke
    /\ c \in KnownCalls
    /\ IF alreadyEnded(c)
       THEN /\ ops' = Append(ops, Done)
            /\ returned' = Return("endCall", c, "ok")
            /\ UNCHANGED hangups
       ELSE IF activeCalls[c].providerCallId = 0
       THEN /\ ops' = Append(ops, Done)
            /\ returned' = Return("endCall", c, "error")
            /\ UNCHANGED hangups
       ELSE /\ ops' = Append(ops, Suspended("endCall", c, "hangup"))
            /\ hangups' = [hangups EXCEPT ![c] = @ + 1]
            /\ UNCHANGED returned
    /\ UNCHANGED <<activeCalls, providerCallIdMap, processedEventIds,
                   rejectedProviderCallIds, activeTurnCalls, transcriptWaiters,
                   maxDurationTimers, store, hookCalls, rejectHangups,
                   timerHangups, deliveries>>

(* An answer to the hangup that ends the call again if it ended meanwhile. *)
endCallReturnUnguarded(i, ok) ==
    /\ ops[i].op = "endCall" /\ ops[i].pc = "hangup"
    /\ LET c == ops[i].callId
           done == [ops EXCEPT ![i] = Done]
       IN /\ returned' = Return("endCall", c, IF ok THEN "ok" ELSE "error")
          /\ IF ok /\ c \in DOMAIN activeCalls
             THEN EndTransition(c, "manual", activeCalls, done)
             ELSE /\ ops' = done
                  /\ store' = IF ok
                              THEN [store EXCEPT ![c].endReason = "manual"]
                              ELSE store
                  /\ hookCalls' = IF ok THEN Hook(c, "ended") ELSE hookCalls
                  /\ UNCHANGED <<activeCalls, maxDurationTimers,
                                 transcriptWaiters, activeTurnCalls>>
    /\ UNCHANGED <<providerCallIdMap, processedEventIds,
                   rejectedProviderCallIds, hangups, rejectHangups,
                   timerHangups, deliveries>>

(* The provider's answer to endCall's hangup: ended (manual), or the error. *)
endCallReturn(i, ok) ==
    /\ ops[i].op = "endCall" /\ ops[i].pc = "hangup"
    /\ LET c == ops[i].callId
           done == [ops EXCEPT ![i] = Done]
       IN /\ returned' = Return("endCall", c, IF ok THEN "ok" ELSE "error")
          /\ IF ok /\ ~alreadyEnded(c)
             THEN EndTransition(c, "manual", activeCalls, done)
             ELSE /\ ops' = done
                  /\ UNCHANGED <<activeCalls, store, hookCalls,
                                 maxDurationTimers, transcriptWaiters,
                                 activeTurnCalls>>
    /\ UNCHANGED <<providerCallIdMap, processedEventIds,
                   rejectedProviderCallIds, hangups, rejectHangups,
                   timerHangups, deliveries>>

(* A max-duration timer that stays armed after it fired. *)
maxDurationFireKeepsTimer(c) ==
    /\ c \in maxDurationTimers
    /\ c \notin timerHangups
    /\ hangups[c] < MaxInputs
    /\ hangups' = [hangups EXCEPT ![c] = @ + 1]
    /\ timerHangups' = timerHangups \cup {c}
    /\ UNCHANGED <<activeCalls, providerCallIdMap, processedEventIds,
                   rejectedProviderCallIds, activeTurnCalls, transcriptWaiters,
                   maxDurationTimers, store, ops, hookCalls, rejectHangups,
                   deliveries, returned>>

(* The max-duration timer of call c fires: the endCall path. *)
maxDurationFire(c) ==
    /\ c \in maxDurationTimers
    /\ maxDurationTimers' = maxDurationTimers \ {c}
    /\ hangups' = [hangups EXCEPT ![c] = @ + 1]
    /\ timerHangups' = timerHangups \cup {c}
    /\ UNCHANGED <<activeCalls, providerCallIdMap, processedEventIds,
                   rejectedProviderCallIds, activeTurnCalls, transcriptWaiters,
                   store, ops, hookCalls, rejectHangups, deliveries, returned>>

(* The provider's answer to the timer's hangup: ended (max-duration). *)
maxDurationReturn(c, ok) ==
    /\ c \in timerHangups
    /\ timerHangups' = timerHangups \ {c}
    /\ IF ok /\ ~alreadyEnded(c)
       THEN EndTransition(c, "max-duration", activeCalls, ops)
       ELSE UNCHANGED <<activeCalls, store, hookCalls,
                        maxDurationTimers, transcriptWaiters, ops,
                        activeTurnCalls>>
    /\ UNCHANGED <<providerCallIdMap, processedEventIds,
                   rejectedProviderCallIds, hangups, rejectHangups,
                   deliveries, returned>>

OpIds == 1..Len(ops)

Next ==
    \/ \E ev \in Events : processEvent(ev) /\ UNCHANGED notManager
    \/ initiateCall /\ UNCHANGED notManager
    \/ \E i \in OpIds, ok \in BOOLEAN :
          initiateCallReturn(i, ok) /\ UNCHANGED notManager
    \/ \E c \in CallIds : speak(c) /\ UNCHANGED notManager
    \/ \E c \in CallIds : continueCall(c) /\ UNCHANGED notManager
    \/ \E i \in OpIds, ok \in BOOLEAN :
          speakReturn(i, ok) /\ UNCHANGED notManager
    \/ \E i \in OpIds, ok \in BOOLEAN :
          continueCallListen(i, ok) /\ UNCHANGED notManager
    \/ \E i \in OpIds : waiterTimeout(i) /\ UNCHANGED notManager
    \/ \E i \in OpIds : continueCallReturn(i) /\ UNCHANGED notManager
    \/ \E c \in CallIds : endCall(c) /\ UNCHANGED notManager
    \/ \E c \in CallIds : maxDurationFire(c) /\ UNCHANGED notManager
    \/ \E i \in OpIds, ok \in BOOLEAN :
          endCallReturn(i, ok) /\ UNCHANGED notManager
    \/ \E c \in CallIds, ok \in BOOLEAN :
          maxDurationReturn(c, ok) /\ UNCHANGED notManager

Spec == Init /\ [][Next]_vars

(***************************************************************************)
(* The lifecycle hooks of getContext() and the live transcript file they   *)
(* write through fs promises that nothing awaits.                          *)
(***************************************************************************)

(* The file names `${dateStr}-${timeStr}.md`: the minute call.startedAt    *)
(* falls in.                                                               *)
Paths == {1, 2}

(* Pieces of a transcript file's content. *)
Header(c) == [kind |-> "header", callId |-> c, n |-> 0]
Line(c, n) == [kind |-> "line", callId |-> c, n |-> n]
Footer(c) == [kind |-> "footer", callId |-> c, n |-> 0]

(* content.replace("In progress", "Completed"): the first occurrence. *)
RECURSIVE Completed(_)
Completed(content) ==
    IF content = <<>> THEN <<>>
    ELSE IF Head(content).kind = "header"
    THEN <<[Head(content) EXCEPT !.kind = "headerDone"]>> \o Tail(content)
    ELSE <<Head(content)>> \o Completed(Tail(content))

(* An fs promise chain in flight, at the operation it is about to do. *)
Chain(c, op, stage, path, data) ==
    [callId |-> c, op |-> op, stage |-> stage, path |-> path, data |-> data]

(* startTranscriptFile(call): registers the path and starts mkdir. *)
startTranscriptFile(fs, c, path) ==
    [paths |-> Remove(fs.paths, c) @@ (c :> path),
     io |-> Append(fs.io, Chain(c, "start", "mkdir", path, <<>>))]

(* appendTranscriptLine(call, entry): starts appendFile, if a path is set. *)
appendTranscriptLine(fs, c, n) ==
    IF c \notin DOMAIN fs.paths THEN fs
    ELSE [fs EXCEPT !.io = Append(@, Chain(c, "append", "appendFile",
                                           fs.paths[c], <<Line(c, n)>>))]

(* finalizeTranscriptFile(call): starts the footer chain, if a path is set. *)
finalizeTranscriptFile(fs, c) ==
    IF c \notin DOMAIN fs.paths THEN fs
    ELSE [fs EXCEPT !.io = Append(@, Chain(c, "finalize", "appendFooter",
                                           fs.paths[c], <<Footer(c)>>))]

(* The hooks the manager's step invoked run, each to its return. *)
RunHooks ==
    \E path \in Paths :
       LET fs0 == [paths |-> liveTranscriptPaths, io |-> io]
           started(c) == hookCalls'[c].startTranscript
                            > hookCalls[c].startTranscript
           entered(c) == hookCalls'[c].entry > hookCalls[c].entry
           ended(c) == hookCalls'[c].ended > hookCalls[c].ended
           run(fs, c) ==
              LET fs1 == IF started(c) THEN startTranscriptFile(fs, c, path)
                         ELSE fs
                  fs2 == IF entered(c)
                         THEN appendTranscriptLine(fs1, c, hookCalls'[c].entry)
                         ELSE fs1
              IN IF ended(c) THEN finalizeTranscriptFile(fs2, c) ELSE fs2
           fsN == run(run(fs0, 1), 2)
       IN /\ (\A c \in CallIds : ~started(c)) => path = 1
          /\ liveTranscriptPaths' = fsN.paths
          /\ io' = fsN.io
          /\ UNCHANGED files

Without(q, i) == SubSeq(q, 1, i - 1) \o SubSeq(q, i + 1, Len(q))

FileContent(path) == IF path \in DOMAIN files THEN files[path] ELSE <<>>

WriteFile(path, content) == Remove(files, path) @@ (path :> content)

(* The operation chain i is about to do completes; its .then runs. *)
IoStep(i) ==
    LET ch == io[i]
    IN CASE ch.stage = "mkdir" ->
              /\ io' = [io EXCEPT ![i].stage = "writeFile",
                                  ![i].data = <<Header(ch.callId)>>]
              /\ UNCHANGED <<files, liveTranscriptPaths>>
         [] ch.stage = "writeFile" ->
              /\ files' = WriteFile(ch.path, ch.data)
              /\ io' = IF ch.op = "finalize"
                       THEN [io EXCEPT ![i].stage = "finally"]
                       ELSE Without(io, i)
              /\ UNCHANGED liveTranscriptPaths
         [] ch.stage = "appendFile" ->
              /\ files' = WriteFile(ch.path, FileContent(ch.path) \o ch.data)
              /\ io' = Without(io, i)
              /\ UNCHANGED liveTranscriptPaths
         [] ch.stage = "appendFooter" ->
              /\ files' = WriteFile(ch.path, FileContent(ch.path) \o ch.data)
              /\ io' = [io EXCEPT ![i].stage = "readFile"]
              /\ UNCHANGED liveTranscriptPaths
         [] ch.stage = "readFile" ->
              /\ io' = [io EXCEPT ![i].stage = "writeFile",
                                  ![i].data = Completed(FileContent(ch.path))]
              /\ UNCHANGED <<files, liveTranscriptPaths>>
         [] ch.stage = "finally" ->
              /\ liveTranscriptPaths' = Remove(liveTranscriptPaths, ch.callId)
              /\ io' = Without(io, i)
              /\ UNCHANGED files

(* The inputs taken while the transcript files are watched. *)
CanInvokeWithFiles == deliveries + Len(ops) < MaxFileInputs

(* The manager with its hooks' file I/O: events, a continueCall that waits *)
(* for its transcript, an endCall that waits for the provider.             *)
HookNext ==
    \/ \E ev \in Events :
          /\ CanInvokeWithFiles
          /\ processEvent(ev) /\ RunHooks /\ UNCHANGED notHooks
    \/ \E c \in CallIds :
          /\ CanInvokeWithFiles
          /\ continueCall(c) /\ RunHooks /\ UNCHANGED notHooks
    \/ \E i \in OpIds, ok \in BOOLEAN :
          continueCallListen(i, ok) /\ UNCHANGED <<notHooks, fileVars>>
    \/ \E i \in OpIds :
          continueCallReturn(i) /\ UNCHANGED <<notHooks, fileVars>>
    \/ \E c \in CallIds :
          /\ CanInvokeWithFiles
          /\ endCall(c) /\ UNCHANGED <<notHooks, fileVars>>
    \/ \E i \in OpIds, ok \in BOOLEAN :
          endCallReturn(i, ok) /\ RunHooks /\ UNCHANGED notHooks
    \/ \E i \in 1..Len(io) :
          IoStep(i) /\ UNCHANGED <<notHooks, managerVars>>

HookSpec == Init /\ [][HookNext]_vars

(***************************************************************************)
(* The manager's fields, initialize() and getContext(): which map objects  *)
(* an operation in flight works on.                                        *)
(***************************************************************************)

(* getContext(): a new object holding the fields' current references. *)
getContext == [maps |-> refs, provider |-> provider]

(* Variant of initialize() that assigns activeCalls before the store is    *)
(* found to be unavailable.                                                *)
initializeAssignsEarly(name, storeOk) ==
    /\ inits < MaxInits
    /\ inits' = inits + 1
    /\ provider' = name
    /\ IF storeOk
       THEN /\ refs' = [f \in Fields |->
                          IF f \in PersistedFields THEN inits + 1 ELSE refs[f]]
            /\ initResult' = "ok"
       ELSE /\ refs' = [refs EXCEPT !["activeCalls"] = inits + 1]
            /\ initResult' = "threw"
    /\ UNCHANGED contexts

(* initialize(provider, webhookUrl): the provider is assigned first; then  *)
(* the store directory is made and loaded, which throws when the store is  *)
(* not available, or the four persisted maps are replaced by the loaded    *)
(* ones, new objects.                                                      *)
initialize(name, storeOk) ==
    /\ inits < MaxInits
    /\ inits' = inits + 1
    /\ provider' = name
    /\ IF storeOk
       THEN /\ refs' = [f \in Fields |->
                          IF f \in PersistedFields THEN inits + 1 ELSE refs[f]]
            /\ initResult' = "ok"
       ELSE /\ refs' = refs
            /\ initResult' = "threw"
    /\ UNCHANGED contexts

(* initiateCall, speak, speakInitialMessage, continueCall, endCall: the    *)
(* method hands getContext() to its helper, which awaits the provider.     *)
getContextForCall ==
    /\ provider # "null"
    /\ Len(contexts) < MaxContexts
    /\ contexts' = Append(contexts, getContext)
    /\ UNCHANGED <<refs, provider, initResult, inits>>

(* The await of operation i ends; it finishes its work on its context. *)
resumeWithContext(i) ==
    /\ contexts' = Without(contexts, i)
    /\ UNCHANGED <<refs, provider, initResult, inits>>

ContextNext ==
    \/ \E name \in ProviderNames, storeOk \in BOOLEAN :
          initialize(name, storeOk) /\ UNCHANGED notContext
    \/ getContextForCall /\ UNCHANGED notContext
    \/ \E i \in 1..Len(contexts) :
          resumeWithContext(i) /\ UNCHANGED notContext

ContextSpec == Init /\ [][ContextNext]_vars

(***************************************************************************)
(* The onCallAnswered hook of getContext().                                *)
(***************************************************************************)

(* String.prototype.trim on a string of blanks and letters. *)
RECURSIVE trimStart(_)
trimStart(t) == IF t # <<>> /\ Head(t) = " " THEN trimStart(Tail(t)) ELSE t

RECURSIVE trimEnd(_)
trimEnd(t) ==
    IF t # <<>> /\ t[Len(t)] = " " THEN trimEnd(SubSeq(t, 1, Len(t) - 1))
    ELSE t

trim(t) == trimEnd(trimStart(t))

(* Variant of the hook without the test of the provider's name. *)
maybeSpeakInitialMessageForAnyProvider(call, prov, spoken) ==
    LET initialMessage == IF call.initialMessage.type = "string"
                          THEN trim(call.initialMessage.value) ELSE <<>>
    IN IF initialMessage = <<>> THEN spoken
       ELSE IF prov = "null" \/ call.providerCallId.value = <<>> THEN spoken
       ELSE Append(spoken, call.providerCallId.value)

(* maybeSpeakInitialMessageOnAnswered(call): the providerCallIds passed to *)
(* speakInitialMessage, after the hook.                                    *)
maybeSpeakInitialMessageOnAnswered(call, prov, spoken) ==
    LET initialMessage == IF call.initialMessage.type = "string"
                          THEN trim(call.initialMessage.value) ELSE <<>>
    IN IF initialMessage = <<>> THEN spoken
       ELSE IF prov = "null" \/ call.providerCallId.value = <<>> THEN spoken
       ELSE IF prov = "twilio" THEN spoken
       ELSE Append(spoken, call.providerCallId.value)

(* The event processor moves the call into answered and invokes the hook. *)
onCallAnswered ==
    /\ answeredRuns = 0
    /\ answeredRuns' = answeredRuns + 1
    /\ spokenInitial' = maybeSpeakInitialMessageOnAnswered(
                            answeredCall, provider, spokenInitial)
    /\ UNCHANGED answeredCall

(* The records and providers the hook is run on. *)
AnsweredInputs ==
    /\ RelayInit /\ ManagerInit /\ FileInit /\ ContextInit /\ VoiceInit
    /\ WatchdogInit
    /\ answeredCall \in AnsweredCalls
    /\ answeredRuns = 0
    /\ spokenInitial = <<>>

AnsweredNext ==
    \/ \E name \in ProviderNames, storeOk \in BOOLEAN :
          initialize(name, storeOk) /\ UNCHANGED notContext
    \/ onCallAnswered /\ UNCHANGED notAnswered

AnsweredSpec == AnsweredInputs /\ [][AnsweredNext]_vars

(***************************************************************************)
(* generateVoiceResponse(params).                                          *)
(***************************************************************************)

(* The callers' numbers, digits only. *)
Phones == {1, 2}

(* Transcripts of up to MaxTurns entries. *)
Transcripts == UNION {[1..n -> {"user", "bot"}] : n \in 0..MaxTurns}

(* The params of an invocation: hint and ephemeralSession may be missing. *)
VoiceParams ==
    [from : Phones, transcript : Transcripts,
     systemPromptHint : {"undefined", "hint"},
     ephemeralSession : {"undefined", "true"},
     aborted : BOOLEAN]

(* The parts extraSystemPrompt is put together from. *)
extraSystemPrompt(systemPromptHint, transcript) ==
    LET basePrompt == <<"basePrompt">>
        withHint == IF systemPromptHint # "undefined"
                    THEN basePrompt \o <<systemPromptHint>> ELSE basePrompt
    IN IF Len(transcript) > 0
       THEN basePrompt \o <<"Conversation so far">> \o transcript
       ELSE withHint

(* The session branch taken with ephemeralSession: two fresh UUIDs, no     *)
(* store.                                                                  *)
EphemeralSession ==
    [sessionKey |-> [kind |-> "voice:ephemeral", id |-> uuids + 1],
     sessionId |-> uuids + 2,
     uuids |-> uuids + 2, store |-> sessionStore, reads |-> storeReads,
     writes |-> storeWrites]

(* The other branch: the entry of the caller's number, made when missing. *)
StoredSession(from) ==
    LET sessionKey == [kind |-> "voice", id |-> from]
        known == sessionKey \in DOMAIN sessionStore
    IN [sessionKey |-> sessionKey,
        sessionId |-> IF known THEN sessionStore[sessionKey] ELSE uuids + 1,
        uuids |-> IF known THEN uuids ELSE uuids + 1,
        store |-> IF known THEN sessionStore
                  ELSE sessionStore @@ (sessionKey :> uuids + 1),
        reads |-> storeReads + 1,
        writes |-> IF known THEN storeWrites ELSE storeWrites + 1]

(* Variant that resolves every session through the store. *)
ResolveSessionStoredOnly(params) == StoredSession(params.from)

(* The session resolution of generateVoiceResponse. *)
ResolveSession(params) ==
    IF params.ephemeralSession = "true" THEN EphemeralSession
    ELSE StoredSession(params.from)

generateVoiceResponse(params) ==
    /\ Len(voiceRuns) < MaxResponses
    /\ IF params.aborted
       THEN /\ voiceRuns' = Append(voiceRuns,
                                   [params |-> params, agent |-> <<>>])
            /\ UNCHANGED <<sessionStore, storeReads, storeWrites, uuids>>
       ELSE LET session == ResolveSession(params)
                args == [sessionId |-> session.sessionId,
                         sessionKey |-> session.sessionKey,
                         extraSystemPrompt |->
                            extraSystemPrompt(params.systemPromptHint,
                                              params.transcript)]
            IN /\ voiceRuns' = Append(voiceRuns,
                                      [params |-> params, agent |-> <<args>>])
               /\ sessionStore' = session.store
               /\ storeReads' = session.reads
               /\ storeWrites' = session.writes
               /\ uuids' = session.uuids
    /\ UNCHANGED invocations

VoiceNext ==
    \E params \in VoiceParams :
       generateVoiceResponse(params) /\ UNCHANGED notVoice

VoiceSpec == Init /\ [][VoiceNext]_vars

(***************************************************************************)
(* generateVoiceResponse on the event loop: an invocation runs from one    *)
(* await to the next, and other invocations and the caller's abort of the  *)
(* signal run in between.                                                  *)
(***************************************************************************)

(* The invocations watched: with no transcript and no hint. *)
AsyncParams ==
    {p \in VoiceParams : p.transcript = <<>> /\ p.systemPromptHint = "undefined"}

(* text: null. *)
NoText == [type |-> "null", value |-> <<>>]

(* An invocation suspended at the await named pc; the error of its result  *)
(* is Undefined when the property is absent.                               *)
Invocation(params, pc) ==
    [params |-> params, pc |-> pc, signalAborted |-> params.aborted,
     sessionKey |-> [kind |-> "none", id |-> 0], sessionId |-> 0,
     loaded |-> <<>>, result |-> [text |-> NoText, error |-> Undefined]]

(* return { text, error }. *)
Returns(inv, text, error) ==
    [inv EXCEPT !.pc = "returned", !.result = [text |-> text, error |-> error]]

(* The leaked tool-call marker in a payload's text. *)
ToolCalls == "<tool_calls>"

(* What runEmbeddedPiAgent can resolve with: up to MaxPayloads payloads of  *)
(* up to MaxPayloadChars characters or markers.                            *)
AgentPayloads ==
    LET texts == UNION {[1..n -> Chars \cup {ToolCalls}] :
                           n \in 0..MaxPayloadChars}
    IN [text : {Undefined} \cup {Str(t) : t \in texts}, isError : BOOLEAN]
AgentResults ==
    [payloads : UNION {[1..n -> AgentPayloads] : n \in 0..MaxPayloads},
     aborted : BOOLEAN]

(* text.replace(/<tool_calls>[\s\S]*/i, ""). *)
RECURSIVE stripToolCalls(_)
stripToolCalls(t) ==
    IF t = <<>> \/ Head(t) = ToolCalls THEN <<>>
    ELSE <<Head(t)>> \o stripToolCalls(Tail(t))

(* texts.join(" "). *)
RECURSIVE join(_)
join(texts) ==
    IF texts = <<>> THEN <<>>
    ELSE IF Len(texts) = 1 THEN texts[1]
    ELSE texts[1] \o <<" ">> \o join(Tail(texts))

(* The text taken from the agent's payloads, or null. *)
extractText(payloads) ==
    LET usable == SelectSeq(payloads, LAMBDA p : /\ p.text.type = "string"
                                                  /\ p.text.value # <<>>
                                                  /\ ~p.isError)
        trimmed == [k \in 1..Len(usable) |-> trim(usable[k].text.value)]
        texts == SelectSeq(trimmed, LAMBDA t : t # <<>>)
        text == join(texts)
        stripped == trim(stripToolCalls(text))
    IN IF text = <<>> \/ stripped = <<>> THEN NoText ELSE Str(stripped)

(* What the invocation returns once the agent has resolved with result. *)
agentResult(inv, result) ==
    LET text == extractText(result.payloads)
    IN IF text = NoText /\ result.aborted
       THEN Returns(inv, NoText, Str(<<"Response generation was aborted">>))
       ELSE Returns(inv, text, Undefined)

(* From the resolved session to the call of the agent: the second test of  *)
(* the signal.                                                             *)
callAgent(inv) ==
    IF inv.signalAborted
    THEN Returns(inv, NoText, Str(<<"Aborted before LLM call">>))
    ELSE [inv EXCEPT !.pc = "runEmbeddedPiAgent"]

(* The call: the early returns, or the await of loadCoreAgentDeps. *)
generateVoiceResponseAsync(params, coreConfig) ==
    /\ Len(invocations) < MaxResponses
    /\ LET inv == Invocation(params, "loadCoreAgentDeps")
       IN invocations' = Append(invocations,
             IF params.aborted
             THEN Returns(inv, NoText, Str(<<"Aborted before start">>))
             ELSE IF ~coreConfig
             THEN Returns(inv, NoText, Str(<<"Core config unavailable">>))
             ELSE inv)
    /\ UNCHANGED <<sessionStore, storeReads, storeWrites, uuids, voiceRuns>>

(* The caller aborts the signal of an invocation in flight. *)
abortSignal(i) ==
    /\ invocations[i].pc # "returned"
    /\ ~invocations[i].signalAborted
    /\ invocations' = [invocations EXCEPT ![i].signalAborted = TRUE]
    /\ UNCHANGED <<sessionStore, storeReads, storeWrites, uuids, voiceRuns>>

(* loadCoreAgentDeps() settles: the paths are resolved and                 *)
(* ensureAgentWorkspace awaited, or the error is returned.                 *)
loadCoreAgentDeps(i, ok) ==
    /\ invocations[i].pc = "loadCoreAgentDeps"
    /\ invocations' =
          [invocations EXCEPT ![i] =
              IF ok THEN [@ EXCEPT !.pc = "ensureAgentWorkspace"]
              ELSE Returns(@, NoText, Str(<<"Unable to load core agent dependencies">>))]
    /\ UNCHANGED <<sessionStore, storeReads, storeWrites, uuids, voiceRuns>>

(* ensureAgentWorkspace resolves: the session is resolved; a new entry is  *)
(* put in the loaded store object and saveSessionStore awaited, otherwise  *)
(* the agent is called.                                                    *)
ensureAgentWorkspace(i) ==
    /\ invocations[i].pc = "ensureAgentWorkspace"
    /\ LET session == ResolveSession(invocations[i].params)
           inv == [invocations[i] EXCEPT !.sessionKey = session.sessionKey,
                                         !.sessionId = session.sessionId]
       IN /\ uuids' = session.uuids
          /\ storeReads' = session.reads
          /\ invocations' =
                [invocations EXCEPT ![i] =
                    IF session.writes > storeWrites
                    THEN [inv EXCEPT !.pc = "saveSessionStore",
                                     !.loaded = session.store]
                    ELSE callAgent(inv)]
    /\ UNCHANGED <<sessionStore, storeWrites, voiceRuns>>

(* saveSessionStore(storePath, sessionStore) resolves: the file holds the  *)
(* object given, or, merged, its entries over the file's.                  *)
saveSessionStore(i, merged) ==
    /\ invocations[i].pc = "saveSessionStore"
    /\ sessionStore' = IF merged THEN invocations[i].loaded @@ sessionStore
                       ELSE invocations[i].loaded
    /\ storeWrites' = storeWrites + 1
    /\ invocations' = [invocations EXCEPT ![i] = callAgent(@)]
    /\ UNCHANGED <<storeReads, uuids, voiceRuns>>

(* runEmbeddedPiAgent settles: resolved with a result, or rejected. *)
runEmbeddedPiAgent(i, threw, result) ==
    /\ invocations[i].pc = "runEmbeddedPiAgent"
    /\ invocations' =
          [invocations EXCEPT ![i] =
              IF threw THEN Returns(@, NoText, Str(<<"String(err)">>))
              ELSE agentResult(@, result)]
    /\ UNCHANGED <<sessionStore, storeReads, storeWrites, uuids, voiceRuns>>

VoiceAsyncNext ==
    \/ \E params \in AsyncParams, coreConfig \in BOOLEAN :
          generateVoiceResponseAsync(params, coreConfig) /\ UNCHANGED notVoice
    \/ \E i \in 1..Len(invocations) : abortSignal(i) /\ UNCHANGED notVoice
    \/ \E i \in 1..Len(invocations), ok \in BOOLEAN :
          loadCoreAgentDeps(i, ok) /\ UNCHANGED notVoice
    \/ \E i \in 1..Len(invocations) :
          ensureAgentWorkspace(i) /\ UNCHANGED notVoice
    \/ \E i \in 1..Len(invocations), merged \in BOOLEAN :
          saveSessionStore(i, merged) /\ UNCHANGED notVoice
    \/ \E i \in 1..Len(invocations), result \in AgentResults :
          runEmbeddedPiAgent(i, FALSE, result) /\ UNCHANGED notVoice
    \/ \E i \in 1..Len(invocations) :
          runEmbeddedPiAgent(i, TRUE, [payloads |-> <<>>, aborted |-> FALSE])
          /\ UNCHANGED notVoice

VoiceAsyncSpec == Init /\ [][VoiceAsyncNext]_vars

(***************************************************************************)
(* scripts/watchdog.sh: one run of the script, from the health check to    *)
(* the health check after the recovery.                                    *)
(***************************************************************************)

(* Variant of the rollback test with a threshold of three failures. *)
shouldRollBackAtThree(fails, backup) == fails >= 3 /\ backup

(* [ "$FAILS" -ge 2 ] && [ -f "$BACKUP" ] *)
shouldRollBack(fails, backup) == fails >= 2 /\ backup

(* A run: healthy is what the first curl finds, listed whether launchctl   *)
(* knows the label, recovered what the curl after the kickstart finds.     *)
watchdog(healthy, listed, recovered) ==
    /\ watchdogRuns < MaxRuns
    /\ watchdogRuns' = watchdogRuns + 1
    /\ IF healthy
       THEN /\ failCountFile' = 0
            /\ failedRuns' = 0
            /\ lastRun' = QuietRun
            /\ UNCHANGED configFile
       ELSE LET FAILS == failCountFile + 1
                rollback == shouldRollBack(FAILS, backupFile)
            IN /\ configFile' = IF rollback THEN "backup" ELSE configFile
               /\ failCountFile' = IF recovered THEN 0 ELSE FAILS
               /\ failedRuns' = IF recovered THEN 0 ELSE failedRuns + 1
               /\ lastRun' = [failed |-> TRUE, fails |-> FAILS,
                              logged |-> TRUE, rolledBack |-> rollback,
                              loaded |-> ~listed, kickstarted |-> TRUE]
    /\ UNCHANGED backupFile

(* Someone edits the config, keeping the old one as .bak or not. *)
editConfig(keepBackup) ==
    /\ configFile' = "current"
    /\ backupFile' = keepBackup
    /\ UNCHANGED <<failCountFile, watchdogRuns, lastRun, failedRuns>>

WatchdogNext ==
    \/ \E healthy, listed, recovered \in BOOLEAN :
          /\ watchdog(healthy, listed, recovered)
          /\ UNCHANGED notWatchdog
    \/ \E keepBackup \in BOOLEAN :
          /\ editConfig(keepBackup)
          /\ UNCHANGED notWatchdog

WatchdogSpec == Init /\ [][WatchdogNext]_vars

(***************************************************************************)
(* Observations on the relay's two output channels.                        *)
(***************************************************************************)

(* The frames passed to sendAudio, in delivery order. *)
Frames == SelectSeq(media, LAMBDA c : c.op = "sendAudio")

RECURSIVE ConcatFrames(_)
ConcatFrames(fs) ==
    IF fs = <<>> THEN <<>> ELSE Head(fs).frame \o ConcatFrames(Tail(fs))

Delivered == ConcatFrames(Frames)

(* The texts of the text messages sent to the transport, in order. *)
TextMsgs == SelectSeq(wire, LAMBDA m : m.kind = "text")
TextsOnWire == [i \in 1..Len(TextMsgs) |-> TextMsgs[i].text]

StrictlyIncreasing(q) == \A i \in 1..Len(q) - 1 : q[i] < q[i + 1]
Elems(q) == {q[i] : i \in 1..Len(q)}

(***************************************************************************)
(* C3 (original): for a relay that is never aborted, once the transport    *)
(* has signalled final or has closed, the frames passed to sendAudio,      *)
(* concatenated, equal all audio payloads received, in order.              *)
(***************************************************************************)
C3_Original ==
    (~aborted /\ (finalSeen \/ readyState = "CLOSED")) => Delivered = received

(***************************************************************************)
(* C3 (amended): for a relay that is never aborted, once the transport has *)
(* closed, or has signalled final and sent no audio payload after a final  *)
(* signal, the frames passed to sendAudio, concatenated in delivery order, *)
(* equal the concatenation of all audio payloads received in arrival       *)
(* order: no byte is lost, duplicated or reordered.                        *)
(***************************************************************************)
C3_DeliveredEqualsReceived ==
    (~aborted /\ (readyState = "CLOSED" \/ (finalSeen /\ ~lateAudio)))
        => Delivered = received

(* Two payloads, three frames, the last one undersized, then final. *)
C3_Witness ==
    /\ ~aborted
    /\ finalSeen
    /\ ~lateAudio
    /\ Len(received) > 2 * CHUNK_SIZE
    /\ Len(Frames) = 3
    /\ Delivered = received

(***************************************************************************)
(* C4: text chunks passed to feedTokens before the transport is ready are  *)
(* sent, when it becomes ready, as one message per chunk in the order of   *)
(* the feedTokens calls and before any chunk fed after ready; none of them *)
(* is dropped, duplicated or reordered.                                    *)
(***************************************************************************)
C4_EarlyTextFlushedInOrder ==
    wsReady =>
        /\ Len(TextsOnWire) >= Len(fedEarly)
        /\ SubSeq(TextsOnWire, 1, Len(fedEarly)) = fedEarly
        /\ Elems(SubSeq(TextsOnWire, Len(fedEarly) + 1, Len(TextsOnWire)))
               \subseteq Elems(fedLate)
        /\ StrictlyIncreasing(TextsOnWire)

(* Two chunks fed before ready and one after it, all three on the wire. *)
C4_Witness ==
    /\ wsReady
    /\ Len(fedEarly) = 2
    /\ Len(fedLate) = 1
    /\ Len(TextsOnWire) = 3

(***************************************************************************)
(* C5: the completion signal goes from pending to resolved exactly once:   *)
(* it is resolved at the first of final message, transport error,          *)
(* transport close and abort, and later ones have no effect on it.         *)
(***************************************************************************)
C5_CompletionResolvesOnce ==
    /\ [](completion = "resolved"
            <=> (finalSeen \/ errorSeen \/ readyState = "CLOSED" \/ aborted))
    /\ [](completion = "pending" <=> completedBy = "none")
    /\ [][completion = "resolved"
            => (completion' = "resolved" /\ completedBy' = completedBy)]_vars

(* Resolved by final, and then error, close and abort all occurred. *)
C5_Witness ==
    /\ completedBy = "final"
    /\ errorSeen
    /\ readyState = "CLOSED"
    /\ aborted

(***************************************************************************)
(* C6: after abort(), feedTokens and flush are no-ops and the relay sends  *)
(* no message at all to the transport: buffered text is discarded and a    *)
(* deferred end-of-stream is not sent, even if the transport opens after   *)
(* the abort.                                                              *)
(***************************************************************************)
C6_NothingSentAfterAbort ==
    [][/\ aborted' => (wire' = wire /\ pendingChunks' = <<>>)
       /\ (aborted /\ calls' # calls) =>
              UNCHANGED <<ws, readyState, aborted, flushed, wsReady,
                          pendingChunks, eosOnOpen, completion, completedBy,
                          audioLeftover, wire, media, fedEarly, fedLate>>]_vars

(* feedTokens buffered a chunk, abort, the transport opened, feedTokens. *)
C6_Witness ==
    /\ aborted
    /\ readyState = "OPEN"
    /\ Len(fedEarly) = 1
    /\ calls = 3
    /\ lastCall = "feedTokens"
    /\ wire = <<>>

(***************************************************************************)
(* C10 (original): among the audio frames a relay delivers, every frame    *)
(* except possibly the last one delivered is exactly CHUNK_SIZE bytes, for *)
(* any sequence of audio, final and close messages.                        *)
(***************************************************************************)
C10_Original ==
    \A i \in 1..Len(Frames) - 1 : Len(Frames[i].frame) = CHUNK_SIZE

(***************************************************************************)
(* C10 (amended): every frame delivered except possibly the last one is    *)
(* exactly CHUNK_SIZE (640) bytes, for any sequence of audio, final and    *)
(* close messages in which no audio payload follows a final message.       *)
(***************************************************************************)
C10_FramesAreChunkSized ==
    ~lateAudio =>
        \A i \in 1..Len(Frames) - 1 : Len(Frames[i].frame) = CHUNK_SIZE

(* Whole frames followed by the undersized rest. *)
C10_Witness ==
    /\ ~lateAudio
    /\ Len(Frames) = 3
    /\ Len(Frames[3].frame) \in 1..(CHUNK_SIZE - 1)

(***************************************************************************)
(* Observations on the CallManager.                                        *)
(***************************************************************************)

(* The step delivers an event whose eventId had been processed before. *)
DuplicateDelivered ==
    /\ deliveries' = deliveries + 1
    /\ processedEventIds' = processedEventIds

(* The position of a status in the call state machine. *)
Rank(status) ==
    CASE status = "initiated" -> 0
      [] status = "ringing" -> 1
      [] status = "answered" -> 2
      [] status = "ended" -> 3

(* The step invokes the controller operation named for call c. *)
Invoked(names, c) ==
    /\ Len(ops') = Len(ops) + 1
    /\ LET last == ops'[Len(ops')]
       IN \/ last.op \in names /\ last.callId = c
          \/ /\ last = Done
             /\ returned'.op \in names
             /\ returned'.callId = c

(***************************************************************************)
(* C1: processEvent is idempotent on eventId: delivering an event whose    *)
(* eventId is already in processedEventIds, in any state and for any event *)
(* kind, changes none of activeCalls, providerCallIdMap,                   *)
(* processedEventIds, rejectedProviderCallIds, the waiters or the timers,  *)
(* and invokes no lifecycle hook and no provider operation.                *)
(***************************************************************************)
C1_DuplicateEventIsNoOp ==
    [][DuplicateDelivered =>
          UNCHANGED <<activeCalls, providerCallIdMap, processedEventIds,
                      rejectedProviderCallIds, activeTurnCalls,
                      transcriptWaiters, maxDurationTimers, store, ops,
                      timerHangups, hookCalls, hangups, rejectHangups,
                      returned>>]_vars

(* An answered call with one transcript entry, and a third delivery that   *)
(* repeated one of the two events.                                         *)
C1_Witness ==
    /\ deliveries = 3
    /\ processedEventIds = {1, 2}
    /\ \E c \in DOMAIN activeCalls :
          /\ activeCalls[c].status = "answered"
          /\ hookCalls[c].entry = 1

(***************************************************************************)
(* C2: a call's status never moves backward: once a call is ended, no      *)
(* later event and no controller operation changes its status, endReason   *)
(* or endedAt, brings it back among the active calls or invokes the ended  *)
(* hook again; a further terminal event for it is a no-op.                 *)
(***************************************************************************)
C2_StatusNeverMovesBackward ==
    /\ [](\A c \in DOMAIN store :
             /\ store[c].status = "ended"
             /\ store[c].endReason # "none"
             /\ store[c].endedAt # 0
             /\ hookCalls[c].ended = 1)
    /\ [](\A c \in DOMAIN activeCalls : activeCalls[c].status # "ended")
    /\ [][/\ \A c \in DOMAIN store :
                /\ c \in DOMAIN store'
                /\ store'[c] = store[c]
                /\ c \notin DOMAIN activeCalls'
                /\ hookCalls'[c] = hookCalls[c]
          /\ \A c \in DOMAIN activeCalls :
                IF c \in DOMAIN activeCalls'
                THEN Rank(activeCalls'[c].status) >= Rank(activeCalls[c].status)
                ELSE c \in DOMAIN store']_vars

(* The one call ended by the caller's hangup; a third event for it was     *)
(* processed and an endCall on it returned.                                *)
C2_Witness ==
    /\ DOMAIN store = {1}
    /\ store[1].endReason = "caller-hangup"
    /\ DOMAIN providerCallIdMap = {1}
    /\ rejectedProviderCallIds = {}
    /\ processedEventIds = {1, 2, 3}
    /\ returned = Return("endCall", 1, "ok")

C8_TimedOutWaiterIsUnregistered ==
    /\ [](\A i \in 1..Len(ops) :
             ops[i].waiter = "timeout" =>
                ~(/\ ops[i].callId \in DOMAIN transcriptWaiters
                  /\ transcriptWaiters[ops[i].callId] = i))
    /\ [][\A i \in 1..Len(ops) :
             /\ ops[i].waiter = "timeout" =>
                   \/ ops'[i] = ops[i]
                   \/ /\ ops'[i] = Done
                      /\ returned' = Return("continueCall", ops[i].callId,
                                            "timeout")
             /\ (ops'[i].waiter = "resolved" /\ ops[i].waiter # "resolved") =>
                   /\ ops[i].waiter = "pending"
                   /\ ops[i].callId \in DOMAIN transcriptWaiters
                   /\ transcriptWaiters[ops[i].callId] = i]_vars

(* continueCall on an answered call timed out and returned the timeout     *)
(* error; the call goes on, with the prompt and one user transcript among  *)
(* its entries and no waiter registered.                                   *)
C8_Witness ==
    /\ returned = Return("continueCall", 1, "timeout")
    /\ ops = <<Done>>
    /\ 1 \in DOMAIN activeCalls
    /\ activeCalls[1].status = "answered"
    /\ hookCalls[1].entry = 2
    /\ transcriptWaiters = <<>>

(***************************************************************************)
(* C9: at most one turn is in progress per call: speak, and the speak step *)
(* of continueCall, on a call that is not answered or whose callId is in   *)
(* activeTurnCalls fails at once, without driving the relay and without    *)
(* being queued, so no call ever has two relays streaming audio.           *)
(***************************************************************************)
C9_OneTurnPerCall ==
    /\ [](\A c \in CallIds : relays(c) <= 1)
    /\ [][\A c \in CallIds :
             (Invoked({"speak", "continueCall"}, c) /\ ~canSpeak(c)) =>
                /\ ops' = Append(ops, Done)
                /\ returned'.result = "error"
                /\ relays(c)' = relays(c)
                /\ UNCHANGED <<activeCalls, activeTurnCalls, transcriptWaiters,
                               hookCalls, store>>]_vars

(* A speak is streaming on call 1 and a second speak on it has failed. *)
C9_Witness ==
    /\ Len(ops) = 2
    /\ ops[1] = Suspended("speak", 1, "streaming")
    /\ ops[2] = Done
    /\ returned = Return("speak", 1, "error")
    /\ activeTurnCalls = {1}

(***************************************************************************)
(* Further observations on the relay.                                      *)
(***************************************************************************)

(* The step is a call of the named operation of the pipeline. *)
Called(name) == calls' = calls + 1 /\ lastCall' = name

(* The number of messages of a kind sent to the transport. *)
CountOnWire(kind) == Len(SelectSeq(wire, LAMBDA m : m.kind = kind))

(***************************************************************************)
(* C11: flush() is idempotent: for any number of flush() calls, made       *)
(* before or after the transport is ready, a relay sends at most one       *)
(* end-of-stream message; a flush() made before ready marks the stream     *)
(* flushed at once and sends nothing at call time, and the end-of-stream   *)
(* message is sent when the transport becomes ready.                       *)
(***************************************************************************)
C11_FlushIsIdempotent ==
    /\ [](CountOnWire("eos") <= 1)
    /\ [][/\ (Called("flush") /\ flushed) =>
                UNCHANGED <<flushed, wire, eosOnOpen, ws, readyState>>
          /\ (Called("flush") /\ ~aborted /\ ~wsReady) =>
                (flushed' /\ wire' = wire)
          /\ (flushed /\ ~aborted /\ ~wsReady /\ wsReady') =>
                (/\ wire'[Len(wire')] = EosMsg
                 /\ CountOnWire("eos")' = 1)]_vars

(* Three flush() calls and nothing else on a relay whose transport opened: *)
(* one end-of-stream message, right after the begin-of-stream message.     *)
C11_Witness ==
    /\ calls = 3
    /\ lastCall = "flush"
    /\ fedEarly = <<>> /\ fedLate = <<>>
    /\ ~aborted
    /\ flushed
    /\ wire = <<BosMsg, EosMsg>>

(* The step settles the completion promise. *)
CompletionSignalled == completion = "pending" /\ completion' = "resolved"

C13_AbortResolvesAtOnce ==
    /\ [](aborted => completion = "resolved")
    /\ [][Called("abort") =>
             /\ completion' = "resolved"
             /\ completion = "pending" => completedBy' = "abort"]_vars

(* abort() on a ready, flushed relay in the middle of the audio stream:    *)
(* the completion was pending and the abort resolved it.                   *)
C13_Witness ==
    /\ lastCall = "abort"
    /\ completedBy = "abort"
    /\ wsReady
    /\ flushed
    /\ audioLeftover # <<>>
    /\ readyState = "CLOSING"

(* The number of calls of an operation made on the media collaborator. *)
CountOnMedia(op) == Len(SelectSeq(media, LAMBDA c : c.op = op))

(***************************************************************************)
(* C14: abort() is idempotent: a second or later abort() on the same relay *)
(* has no effect, so per relay the media collaborator's clearAudio is      *)
(* called exactly once, by the first abort(), and the transport is closed  *)
(* at most once.                                                           *)
(***************************************************************************)
C14_AbortIsIdempotent ==
    /\ [](CountOnMedia("clearAudio") = IF aborted THEN 1 ELSE 0)
    /\ [](closeCalls <= 1)
    /\ [][(Called("abort") /\ aborted) =>
             UNCHANGED <<ws, readyState, aborted, flushed, wsReady,
                         pendingChunks, eosOnOpen, completion, completedBy,
                         audioLeftover, wire, media, received, fedEarly,
                         fedLate, msgCount, finalSeen, lateAudio, errorSeen,
                         closeCalls>>]_vars

(* The transport opened, then abort() twice and nothing else: one          *)
(* clearAudio and one close of the transport.                              *)
C14_Witness ==
    /\ calls = 2
    /\ lastCall = "abort"
    /\ aborted
    /\ ~flushed
    /\ fedEarly = <<>> /\ fedLate = <<>>
    /\ wire = <<BosMsg>>
    /\ closeCalls = 1
    /\ CountOnMedia("clearAudio") = 1

(* The step moves call c into ended. *)
Ends(c) == c \notin DOMAIN store /\ c \in DOMAIN store'

PendingWaiters == {i \in 1..Len(ops) : ops[i].waiter = "pending"}

TimerFires(c) == c \notin timerHangups /\ c \in timerHangups'

(* The step completes the endCall path the timer of call c started. *)
TimerPathDone(c) == c \in timerHangups /\ c \notin timerHangups'

Record(c) == IF c \in DOMAIN store THEN store[c] ELSE activeCalls[c]

IsSuspended(c) ==
    \/ \E i \in OpIds : ops[i].callId = c /\ ops[i].pc # "done"
    \/ \E j \in 1..Len(io) : io[j].callId = c

(* The call an event is routed to: 0 for a caller that is turned away. *)
CallOf(ev) ==
    IF ev.providerCallId \in DOMAIN providerCallIdMap
    THEN providerCallIdMap[ev.providerCallId]
    ELSE IF ev.providerCallId \in DeniedPids THEN 0 ELSE NextCallId

(* Everything the manager and its hooks hold for call c. *)
CallView(c) ==
    [record |-> IF c \in DOMAIN activeCalls THEN <<activeCalls[c]>> ELSE <<>>,
     stored |-> IF c \in DOMAIN store THEN <<store[c]>> ELSE <<>>,
     turn |-> c \in activeTurnCalls,
     timer |-> c \in maxDurationTimers,
     waiter |-> c \in DOMAIN transcriptWaiters,
     hooks |-> hookCalls[c],
     ops |-> SelectSeq(ops, LAMBDA o : o.callId = c),
     path |-> IF c \in DOMAIN liveTranscriptPaths
              THEN <<liveTranscriptPaths[c]>> ELSE <<>>,
     io |-> SelectSeq(io, LAMBDA ch : ch.callId = c)]

C19_EventNeverWaits ==
    \A ev \in Events :
       (/\ CanInvoke /\ CanInvokeWithFiles
        /\ CallOf(ev) \in CallIds \cup {0}
        /\ \E a \in CallIds : a # CallOf(ev) /\ IsSuspended(a))
       => ENABLED (processEvent(ev) /\ RunHooks)

C19_EventTouchesOneCall ==
    (deliveries' = deliveries + 1)
    => \A a, b \in CallIds :
          (CallView(a)' # CallView(a) /\ CallView(b)' # CallView(b)) => a = b

C19_HooksDoNotAwait ==
    (hookCalls' # hookCalls)
    => /\ files' = files
       /\ Len(io') >= Len(io)
       /\ SubSeq(io', 1, Len(io)) = io
       /\ \A c \in CallIds :
             (/\ hookCalls'[c].entry > hookCalls[c].entry
              /\ c \in DOMAIN liveTranscriptPaths)
             => /\ Len(io') = Len(io) + 1
                /\ io'[Len(io')].callId = c
                /\ io'[Len(io')].stage = "appendFile"

C19_CallsAreIndependent ==
    /\ []C19_EventNeverWaits
    /\ [][C19_EventTouchesOneCall]_vars
    /\ [][C19_HooksDoNotAwait]_vars

(* Call 1 waits for its transcript with the write of its line in flight,   *)
(* and the event that answered call 2 was applied after that write was     *)
(* started, its own transcript file being started behind it.               *)
C19_Witness ==
    /\ \E i \in OpIds : ops[i].callId = 1 /\ ops[i].pc = "waiting"
                        /\ ops[i].waiter = "pending"
    /\ 2 \in DOMAIN activeCalls /\ activeCalls[2].status = "answered"
    /\ \E j, k \in 1..Len(io) :
          /\ j < k
          /\ io[j].callId = 1 /\ io[j].op = "append"
          /\ io[k].callId = 2 /\ io[k].op = "start"


(***************************************************************************)
(* C20: a relay opens exactly one transport connection in its lifetime.    *)
(* The socket made by the constructor goes through CONNECTING, OPEN,       *)
(* CLOSING, CLOSED and never back, so the opening message is sent at most  *)
(* once; a transport error resolves the completion in the same step; and   *)
(* once the socket has failed or closed, the completion is resolved,       *)
(* nothing more is written to the transport and no connection is opened.   *)
(***************************************************************************)
SocketRank(rs) ==
    CASE rs = "CONNECTING" -> 0
      [] rs = "OPEN" -> 1
      [] rs = "CLOSING" -> 2
      [] rs = "CLOSED" -> 3

Terminated == errorSeen \/ readyState = "CLOSED"

C20_ErrorIsTerminal ==
    /\ [](CountOnWire("bos") <= 1)
    /\ [](Terminated => completion = "resolved")
    /\ [][SocketRank(readyState') >= SocketRank(readyState)]_vars
    /\ [][(~errorSeen /\ errorSeen') => completion' = "resolved"]_vars
    /\ [][Terminated => (/\ wire' = wire
                         /\ readyState' \notin {"CONNECTING", "OPEN"})]_vars

(* The open socket failed, completing the relay, and closed; tokens were   *)
(* fed after the failure and were not sent.                                *)
C20_Witness ==
    /\ errorSeen /\ readyState = "CLOSED" /\ ~aborted /\ wsReady
    /\ completion = "resolved" /\ completedBy = "error"
    /\ lastCall = "feedTokens" /\ fedLate # <<>>
    /\ fedLate[Len(fedLate)] \notin Elems(TextsOnWire)
    /\ CountOnWire("bos") = 1


(***************************************************************************)
(* C21: when the synthesis transport fails during a turn (an error, or a   *)
(* close before the final signal), what the caller awaiting the relay      *)
(* observes is an error, which a relay that completed with the final       *)
(* signal does not give.                                                   *)
(***************************************************************************)

(* waitForCompletion(): the state of completionPromise, which the relay    *)
(* only ever resolves, with no value.                                      *)
waitForCompletion == IF completion = "resolved" THEN "fulfilled" ELSE "pending"

(* The completion was first signalled by the failing or closing transport. *)
TransportFailed ==
    completion = "resolved" /\ completedBy \in {"error", "close"} /\ ~aborted

C21_FailureSurfacesAsError ==
    TransportFailed => waitForCompletion = "rejected"


(***************************************************************************)
(* C22: all components see one set of runtime maps.  The context of every  *)
(* operation in flight references, for each of the seven runtime maps, the *)
(* object the manager's field holds now, so that an operation that began   *)
(* before initialize() ran and one that begins after it work on the same   *)
(* maps.                                                                   *)
(***************************************************************************)
C22_ContextsShareTheMaps ==
    \A i \in 1..Len(contexts) :
       \A f \in Fields : contexts[i].maps[f] = refs[f]


(***************************************************************************)
(* C23: on the transition into answered, the onCallAnswered hook starts    *)
(* speaking the initial message, for the call's providerCallId, if and     *)
(* only if metadata.initialMessage is a string with a character that is    *)
(* not blank, a provider is set, the call has a providerCallId and the     *)
(* provider is not twilio; in every other case the hook changes nothing.   *)
(***************************************************************************)
HasNonBlank(v) ==
    v.type = "string" /\ \E i \in 1..Len(v.value) : v.value[i] # " "

ShouldSpeakInitial ==
    /\ HasNonBlank(answeredCall.initialMessage)
    /\ provider # "null"
    /\ answeredCall.providerCallId.type = "string"
    /\ answeredCall.providerCallId.value # <<>>
    /\ provider # "twilio"

C23_InitialMessageSpokenIff ==
    [][(answeredRuns' = answeredRuns + 1)
       => IF ShouldSpeakInitial
          THEN spokenInitial' =
                  Append(spokenInitial, answeredCall.providerCallId.value)
          ELSE spokenInitial' = spokenInitial]_vars

(* The hook ran for a call whose message has a leading blank, under a      *)
(* provider other than twilio, and speakInitialMessage was started.        *)
C23_Witness ==
    /\ answeredRuns = 1
    /\ answeredCall.initialMessage = Str(<<" ", "a">>)
    /\ provider = "telnyx"
    /\ spokenInitial = <<answeredCall.providerCallId.value>>


Ephemeral(run) == run.params.ephemeralSession = "true"

C25_EphemeralLeavesStoreAlone ==
    /\ [][(/\ Len(voiceRuns') = Len(voiceRuns) + 1
           /\ Ephemeral(voiceRuns'[Len(voiceRuns')]))
          => UNCHANGED <<sessionStore, storeReads, storeWrites>>]_vars
    /\ [](\A i, j \in 1..Len(voiceRuns) :
             (/\ i # j /\ Ephemeral(voiceRuns[i])
              /\ voiceRuns[i].agent # <<>> /\ voiceRuns[j].agent # <<>>)
             => /\ voiceRuns[i].agent[1].sessionId
                      # voiceRuns[j].agent[1].sessionId
                /\ voiceRuns[i].agent[1].sessionKey
                      # voiceRuns[j].agent[1].sessionKey)
    /\ [](\A i \in 1..Len(voiceRuns) :
             (Ephemeral(voiceRuns[i]) /\ voiceRuns[i].agent # <<>>)
             => \A k \in DOMAIN sessionStore :
                   /\ k # voiceRuns[i].agent[1].sessionKey
                   /\ sessionStore[k] # voiceRuns[i].agent[1].sessionId)

(* A stored session was made for a caller, then an ephemeral response was  *)
(* generated for the same caller: the store was read and written once.     *)
C25_Witness ==
    /\ Len(voiceRuns) = 2
    /\ ~Ephemeral(voiceRuns[1]) /\ Ephemeral(voiceRuns[2])
    /\ voiceRuns[1].params.from = voiceRuns[2].params.from
    /\ voiceRuns[1].agent # <<>> /\ voiceRuns[2].agent # <<>>
    /\ storeReads = 1 /\ storeWrites = 1

(***************************************************************************)
(* C26: when systemPromptHint is provided, the system prompt handed to the *)
(* agent contains the hint, for every transcript, empty or not.            *)
(***************************************************************************)
C26_HintReachesAgent ==
    \A i \in 1..Len(voiceRuns) :
       (/\ voiceRuns[i].agent # <<>>
        /\ voiceRuns[i].params.systemPromptHint # "undefined")
       => voiceRuns[i].params.systemPromptHint
             \in Elems(voiceRuns[i].agent[1].extraSystemPrompt)


(* The step is a run of the watchdog. *)
WatchdogRan == watchdogRuns' = watchdogRuns + 1

(***************************************************************************)
(* C27: on a run that is the first consecutive health-check failure, the   *)
(* failure is logged and no recovery action is taken: no config rollback,  *)
(* no launchctl load, no kickstart.                                        *)
(***************************************************************************)
C27_FirstFailureOnlyLogged ==
    [][(WatchdogRan /\ lastRun'.failed /\ failedRuns = 0)
       => /\ lastRun'.logged
          /\ ~lastRun'.rolledBack
          /\ ~lastRun'.loaded
          /\ ~lastRun'.kickstarted]_vars

(***************************************************************************)
(* C28: the watchdog rolls the config back to its .bak exactly on the      *)
(* failing runs whose consecutive-failure count, the failed runs since the *)
(* last successful health check, is 2 or more, and then kickstarts the     *)
(* gateway.                                                                *)
(***************************************************************************)
C28_Original ==
    [][WatchdogRan
       => /\ lastRun'.rolledBack <=> (lastRun'.failed /\ failedRuns + 1 >= 2)
          /\ lastRun'.rolledBack => lastRun'.kickstarted]_vars

(***************************************************************************)
(* C28, amended: the count the watchdog keeps in its file is the number of *)
(* failed runs since the last successful health check, and it rolls the    *)
(* config back exactly on the failing runs whose count is 2 or more and    *)
(* that find a .bak file; the config then holds the backup and the gateway *)
(* is kickstarted.                                                         *)
(***************************************************************************)
C28_RollbackFromSecondFailure ==
    /\ [](failCountFile = failedRuns)
    /\ [][WatchdogRan
          => /\ lastRun'.failed => lastRun'.fails = failedRuns + 1
             /\ lastRun'.rolledBack
                   <=> (lastRun'.failed /\ failedRuns + 1 >= 2 /\ backupFile)
             /\ lastRun'.rolledBack
                   => (configFile' = "backup" /\ lastRun'.kickstarted)
             /\ ~lastRun'.rolledBack => configFile' = configFile]_vars

(* The second failed run in a row found a backup and rolled the edited     *)
(* config back.                                                            *)
C28_Witness ==
    /\ lastRun.failed /\ lastRun.fails = 2 /\ lastRun.rolledBack
    /\ failedRuns = 2 /\ configFile = "backup" /\ backupFile


(***************************************************************************)
(* C30: after every relay operation (each audio message, the final one,    *)
(* close, abort) the leftover audio buffer holds fewer than CHUNK_SIZE     *)
(* bytes.                                                                  *)
(***************************************************************************)
C30_LeftoverBelowChunkSize == Len(audioLeftover) < CHUNK_SIZE

(* Two audio messages of one byte less than a frame: one frame went out    *)
(* and two bytes less than a frame are kept.                               *)
C30_Witness ==
    /\ msgCount = 2 /\ ~aborted
    /\ Len(received) = 2 * (CHUNK_SIZE - 1)
    /\ CountOnMedia("sendAudio") = 1
    /\ Len(audioLeftover) = CHUNK_SIZE - 2


(* The step in which the transport opens. *)
Opens == readyState = "CONNECTING" /\ readyState' = "OPEN"

(***************************************************************************)
(* C31: when flush() is called before the transport is ready, the          *)
(* end-of-stream message is sent after the begin-of-stream message and     *)
(* after every text chunk buffered before the open, the chunks fed between *)
(* the flush() call and the open included.                                 *)
(***************************************************************************)
C31_DeferredEosAfterEarlyText ==
    /\ [][(Opens /\ eosOnOpen /\ ~aborted)
          => /\ Len(wire') = Len(fedEarly) + 2
             /\ wire'[1] = BosMsg
             /\ \A k \in 1..Len(fedEarly) : wire'[k + 1] = TextMsg(fedEarly[k])
             /\ wire'[Len(wire')] = EosMsg]_vars
    /\ [](\A i, j \in 1..Len(wire) :
             (/\ eosOnOpen /\ wire[i] = EosMsg
              /\ \/ wire[j] = BosMsg
                 \/ wire[j].kind = "text" /\ wire[j].text \in Elems(fedEarly))
             => j < i \/ j = i)

(* flush() came first, then tokens were fed, then the transport opened:    *)
(* the tokens went out between the two stream messages.                    *)
C31_Witness ==
    /\ eosOnOpen /\ wsReady /\ ~aborted
    /\ fedEarly = <<2>>
    /\ wire = <<BosMsg, TextMsg(2), EosMsg>>


(***************************************************************************)
(* C32: the first message a relay sends on the transport is the            *)
(* begin-of-stream message; it is sent exactly once, when the transport    *)
(* opens, and no text or end-of-stream message is sent before it.          *)
(***************************************************************************)
C32_Original ==
    /\ [](wire # <<>> => wire[1] = BosMsg)
    /\ [](CountOnWire("bos") <= 1)
    /\ [][(CountOnWire("bos")' # CountOnWire("bos")) => Opens]_vars
    /\ [][Opens => CountOnWire("bos")' = 1]_vars

(***************************************************************************)
(* C32, amended: the first message a relay sends on the transport is the   *)
(* begin-of-stream message; it is sent at most once and only in the step   *)
(* in which the transport opens, exactly once if the relay was not aborted *)
(* before the open and never if it was, and no text or end-of-stream       *)
(* message is sent before it.                                              *)
(***************************************************************************)
C32_BosFirstAndOnce ==
    /\ [](wire # <<>> => wire[1] = BosMsg)
    /\ [](CountOnWire("bos") <= 1)
    /\ [][(CountOnWire("bos")' # CountOnWire("bos")) => Opens]_vars
    /\ [][(Opens /\ ~aborted) => CountOnWire("bos")' = 1]_vars
    /\ [][(Opens /\ aborted) => (wire = <<>> /\ wire' = <<>>)]_vars

(* Tokens were fed before the open; the transport opened and the           *)
(* begin-of-stream message went out ahead of them.                         *)
C32_Witness ==
    /\ wsReady /\ ~flushed /\ ~aborted
    /\ fedEarly = <<1>>
    /\ wire = <<BosMsg, TextMsg(1)>>


(***************************************************************************)
(* C33: after abort() the relay delivers nothing further to the media      *)
(* collaborator: no sendAudio and no sendMark call follows the clearAudio  *)
(* call, for any later transport message, error or close, a partial frame  *)
(* buffered at the time of the abort included.                             *)
(***************************************************************************)
C33_NothingToMediaAfterAbort ==
    \A i, j \in 1..Len(media) :
       (media[i] = ClearAudio /\ i < j) => media[j].op \notin {"sendAudio", "sendMark"}


(***************************************************************************)
(* C34: abort() called while the transport is connecting makes the         *)
(* transport close as soon as it opens; no aborted relay leaves an open    *)
(* transport connection behind.                                            *)
(***************************************************************************)
C34_AbortedTransportClosedOnOpen ==
    /\ [][(readyState = "CONNECTING" /\ aborted /\ readyState' # readyState)
          => readyState' \in {"CLOSING", "CLOSED"}]_vars
    /\ [](aborted => readyState # "OPEN")

(***************************************************************************)
(* C35: once the end-of-stream message is on the transport no text message *)
(* follows it, whatever feedTokens calls come after flush().               *)
(***************************************************************************)
C35_NoTextAfterEos ==
    \A i, j \in 1..Len(wire) :
       (wire[i] = EosMsg /\ i < j) => wire[j].kind # "text"


(***************************************************************************)
(* C36: two calls that are live at the same time never share a live        *)
(* transcript file: the paths registered in liveTranscriptPaths are        *)
(* distinct for distinct callIds, whatever the calls' start times.         *)
(***************************************************************************)
C36_LivePathsDistinct ==
    \A a, b \in DOMAIN liveTranscriptPaths :
       a # b => liveTranscriptPaths[a] # liveTranscriptPaths[b]

(***************************************************************************)
(* C37: once every fs promise chain of an answered and ended call has      *)
(* settled, the call's transcript file holds every entry passed to         *)
(* onTranscriptEntry between the answer and the end, after the header and  *)
(* in the order of the appends, whatever the order in which the header     *)
(* write, the appends and the read-replace-write of the end completed.     *)
(***************************************************************************)
C37_TranscriptFileComplete ==
    \A c \in CallIds :
       (/\ hookCalls[c].startTranscript > 0
        /\ hookCalls[c].entry > 0
        /\ hookCalls[c].ended > 0
        /\ \A i \in 1..Len(io) : io[i].callId # c)
       => \E path \in DOMAIN files :
             LET content == files[path]
                 isHeader(m) == m.callId = c /\ m.kind \in {"header", "headerDone"}
                 isLine(m) == m.callId = c /\ m.kind = "line"
             IN /\ \E h \in 1..Len(content) :
                      /\ isHeader(content[h])
                      /\ \A k \in 1..Len(content) : isLine(content[k]) => h < k
                /\ SelectSeq(content, isLine)
                      = [n \in 1..hookCalls[c].entry |-> Line(c, n)]


(***************************************************************************)
(* C38: all invocations of generateVoiceResponse for one caller number     *)
(* that are not ephemeral use the same sessionId, those that run           *)
(* concurrently while the store has no entry for the number included, and  *)
(* an entry once saved in the store is never replaced or lost.             *)
(***************************************************************************)
C38_OneSessionPerNumber ==
    /\ [](\A i, j \in 1..Len(invocations) :
             (/\ invocations[i].sessionKey.kind = "voice"
              /\ invocations[j].sessionKey.kind = "voice"
              /\ invocations[i].params.from = invocations[j].params.from)
             => invocations[i].sessionId = invocations[j].sessionId)
    /\ [][\A k \in DOMAIN sessionStore :
             /\ k \in DOMAIN sessionStore'
             /\ sessionStore'[k] = sessionStore[k]]_vars

(***************************************************************************)
(* C39: a result of generateVoiceResponse whose text is null carries an    *)
(* error string; text null never comes without an error.                   *)
(***************************************************************************)
C39_NullTextHasError ==
    \A i \in 1..Len(invocations) :
       (invocations[i].pc = "returned" /\ invocations[i].result.text = NoText)
       => invocations[i].result.error.type = "string"

====
